---- MODULE Spec2Model ----
(***************************************************************************)
(* Karl (src/Karl/karl.h): the keepalive ingestor, the keyed store, the    *)
(* timeout reconciler (StateUpdateThread), the snapshot endpoint and the   *)
(* constructor / destructor of GenericKarl, as a state machine of threads  *)
(* that interleave at the points where the code takes or drops a lock,     *)
(* commits a transaction or waits on the condition variable.               *)
(*                                                                         *)
(* The non-mock build is modelled (the #else branch of CURRENT_MOCK_TIME   *)
(* in StateUpdateThread), with time scaled down: one unit of `clock` is    *)
(* the resolution at which timeouts are compared.                          *)
(***************************************************************************)
EXTENDS Integers, Sequences, FiniteSets, TLC

\* ------------------------------------------------------------------------
\* Bounds of the model: the horizon of the clock, the length of (A), the
\* size of the store's log past which no DELETE is accepted, the HTTP
\* threads, and the detached transactions that may be pending.
MaxTime == 6
MaxStreamLen == 2
MaxStoreSize == 4
NumHandlers == 1
MaxDetached == 1

\* Program constants (scaled).
service_timeout_interval == 1

Codenames == {"a", "b"}
\* The codenames a previous launch may have left in the persisted files.
PersistedCodenames == <<"a">>
Ips == {"ip1"}
Handlers == 1..NumHandlers
StartTime == Len(PersistedCodenames) + 1

\* Values of a handler's locals while it serves no request.
NoCodename == ""
NoIp == ""

RegisteredStates == {"Active", "DisconnectedByTimeout", "Deregistered"}

VARIABLES
  clock,          \* current::time::Now()
  stream,         \* keepalives_stream_: the entries of (A), in index order
  claires,        \* storage_.claires: codename -> ClaireInfo
  karl,           \* storage_.karl: the KarlInfo records, in insertion order
  store_size,     \* the size of the store's backing log: one entry per committing transaction
  detached,       \* the codenames of the DELETE transactions that were Detach()ed
                  \* and have not committed yet, in submission order
  cache,          \* services_keepalive_time_cache_
  latest,         \* latest_keepalive_index_plus_one_
  destructing,    \* destructing_
  rpc,            \* position of the reconciler thread
  r_timeouted,    \* timeouted_codenames
  r_most_recent,  \* most_recent_keepalive_time
  r_deadline,     \* absolute time at which wait_for gives up
  has_nginx,      \* has_nginx_config_file_
  first_run,      \* static bool first_run
  last_reflected, \* last_reflected_state_stream_size_
  r_size,         \* current_stream_size
  nginx_config,   \* the locations of the last written config
  ctor_pc,        \* position of the constructor body
  dtor_pc,        \* position of the destructor
  hpc,            \* position of each HTTP handler thread
  hc,             \* the codename the handler works on
  hip,            \* the peer ip of the request
  hnow,           \* the handler's `now`
  hindex,         \* the snapshot handler's `index`
  hsize,          \* history: the size of (A) when the snapshot request arrived
  hist,           \* history: what touched the codename last: an ingest's or a
                  \* DELETE's transaction, or the constructor's restore
  servers,        \* storage_.servers: ip -> ServerInfo.behind_this_by
  builds,         \* storage_.builds: codename -> ClaireBuildInfo.build
  hbuild,         \* per handler: optional_build
  hbehind,        \* per handler: optional_behind_this_by
  status,         \* per handler: what GET / has computed before its transaction
  result,         \* the response of GET / while its handler has not returned
  nested,         \* history: some thread has held both map mutexes at once
  unguarded,      \* history: the maps that were accessed without their mutex
  data_destructing, \* the stream's data (ScopeOwnedByMe) is being torn down
  pub_pc,         \* position of the thread that calls Stream::Publish
  sub_pc,         \* position of the subscriber worker thread
  sub_index,      \* ThreadImpl: index
  sub_size,       \* ThreadImpl: size
  sub_pos,        \* ThreadImpl: the position of the range-for over Iterate(index, size)
  terminate_signal, \* terminate_signal_
  terminate_sent, \* ThreadImpl: terminate_sent
  thread_done,    \* thread_done_
  scope_pc,       \* position of the owner of the SubscriberScope
  delivered,      \* history: the indexes passed to the subscriber, in order
  waited,         \* history: the subscriber's Terminate() answered Wait
  terminate_calls, \* history: how many times the worker called Terminate()
  stopped,        \* history: Terminate() answered other than Wait, or the
                  \* subscriber answered Done to an entry
  publisher,      \* publisher_ holds the stream's publisher
  authority,      \* authority_
  acquired,       \* the acquirer holds a publisher it has accepted
  thrown          \* the ownership exception that the most recent call of
                  \* Publish, MovePublisherTo or AcquirePublisher threw

vars == <<clock, stream, claires, karl, store_size, detached, cache, latest, destructing,
          rpc, r_timeouted, r_most_recent, r_deadline,
          has_nginx, first_run, last_reflected, r_size, nginx_config,
          ctor_pc, dtor_pc, hpc, hc, hip, hnow, hindex, hsize, hist,
          servers, builds, hbuild, hbehind, status, result, nested, unguarded,
          data_destructing, pub_pc, sub_pc, sub_index, sub_size, sub_pos,
          terminate_signal, terminate_sent, thread_done, scope_pc, delivered, waited,
          terminate_calls, stopped, publisher, authority, acquired, thrown>>

storevars == <<claires, karl, store_size, detached>>
rvars == <<rpc, r_timeouted, r_most_recent, r_deadline>>
nginxvars == <<has_nginx, first_run, last_reflected, r_size, nginx_config>>
hvars == <<hpc, hc, hip, hnow, hindex, hsize>>
ingestvars == <<servers, builds, hbuild, hbehind>>
statusvars == <<status, result>>
lockvars == <<nested, unguarded>>
ownervars == <<publisher, authority, acquired, thrown>>
sherlockvars == <<data_destructing, pub_pc, sub_pc, sub_index, sub_size, sub_pos,
                  terminate_signal, terminate_sent, thread_done, scope_pc,
                  delivered, waited,
                  terminate_calls, stopped, ownervars>>
karlvars == <<clock, stream, storevars, cache, latest, destructing, rvars, nginxvars,
              ctor_pc, dtor_pc, hvars, hist, statusvars, ingestvars>>

\* ------------------------------------------------------------------------
\* Helpers.
Max(x, y) == IF x >= y THEN x ELSE y

\* Optional<>: Exists() of a dictionary lookup.
Exists(table, key) == key \in DOMAIN table

\* Dictionary Add(): upsert by primary key.
Add(table, key, row) ==
  [k \in DOMAIN table \cup {key} |-> IF k = key THEN row ELSE table[k]]

\* unordered_map::erase(key).
Erase(table, key) == [k \in DOMAIN table \ {key} |-> table[k]]

\* A default-constructed ClaireInfo with only the codename set.
SkeletalClaire == [registered_state |-> "Active", location |-> ""]

\* Timestamp of the last entry of a stream, 0 when it is empty.
LastTimestamp(s) == IF Len(s) = 0 THEN 0 ELSE s[Len(s)].us

\* A persister that appends the timestamp it is given.
AppendAsGiven(s, codename, us) ==
  Append(s, [codename |-> codename, us |-> us])

\* The persister's Publish: appends <entry, us>; a timestamp that is not
\* greater than the last one is moved past it. Returns the new sequence;
\* the index of the new entry is the 0-based position Len(s).
PersistencePublish(s, codename, us) ==
  Append(s, [codename |-> codename, us |-> Max(us, LastTimestamp(s) + 1)])

\* condition_variable::notify_one(): wakes the reconciler if it is blocked,
\* and is lost otherwise.
NotifyOne(pc) == IF pc \in {"wait", "wait_for"} THEN "loop" ELSE pc

\* The store's serialization point: transactions commit in the order in
\* which they were submitted, so a transaction commits only when no
\* transaction detached before it is still pending.
CanCommit == detached = <<>>

ActiveCodenames(cl) == {c \in DOMAIN cl : cl[c].registered_state = "Active"}

\* ------------------------------------------------------------------------
\* The state a previous launch can have left on disk: a row for some
\* codenames, each with an entry in (A).
PersistedStream(S) ==
  LET sel == SelectSeq(PersistedCodenames, LAMBDA c : c \in S)
  IN  [i \in 1..Len(sel) |-> [codename |-> sel[i], us |-> i]]

\* A handler that is not serving GET /, and no response of GET / at hand.
NoStatus == [from |-> 0, to |-> 0, active_only |-> FALSE, size |-> 0, report |-> <<>>]
NoResult == [responded |-> FALSE, now |-> 0, from |-> 0, to |-> 0, active_only |-> FALSE,
             size |-> 0, services |-> <<>>, registered |-> <<>>, location |-> <<>>]

\* The members and locals of a launch before it has run, whatever the
\* previous launch left on disk.
InitMemory ==
  /\ detached = <<>>
  /\ cache = <<>>
  /\ latest = [c \in Codenames |-> 0]
  /\ destructing = FALSE
  /\ rpc = "loop"
  /\ r_timeouted = {}
  /\ r_most_recent = 0
  /\ r_deadline = 0
  /\ has_nginx \in BOOLEAN
  /\ first_run = TRUE
  /\ last_reflected = 0
  /\ r_size = 0
  /\ nginx_config = {}
  /\ ctor_pc = "body"
  /\ dtor_pc = "idle"
  /\ hpc = [h \in Handlers |-> "idle"]
  /\ hc = [h \in Handlers |-> NoCodename]
  /\ hip = [h \in Handlers |-> NoIp]
  /\ hnow = [h \in Handlers |-> 0]
  /\ hindex = [h \in Handlers |-> 0]
  /\ hsize = [h \in Handlers |-> 0]
  /\ hist = [c \in Codenames |-> "none"]
  /\ servers = <<>>
  /\ builds = <<>>
  /\ hbuild = [h \in Handlers |-> <<>>]
  /\ hbehind = [h \in Handlers |-> <<>>]
  /\ status = [h \in Handlers |-> NoStatus]
  /\ result = NoResult
  /\ nested = FALSE
  /\ unguarded = {}
  /\ data_destructing = FALSE
  /\ pub_pc = "idle"
  /\ sub_pc = "none"
  /\ sub_index = 0
  /\ sub_size = 0
  /\ sub_pos = 0
  /\ terminate_signal = FALSE
  /\ terminate_sent = FALSE
  /\ thread_done = FALSE
  /\ scope_pc = "none"
  /\ delivered = <<>>
  /\ waited = FALSE
  /\ terminate_calls = 0
  /\ stopped = FALSE
  /\ publisher = TRUE
  /\ authority = "Own"
  /\ acquired = FALSE
  /\ thrown = "none"

Init ==
  /\ clock = StartTime
  /\ \E S \in SUBSET {PersistedCodenames[i] : i \in 1..Len(PersistedCodenames)} :
       /\ stream = PersistedStream(S)
       /\ \E st \in [S -> RegisteredStates] :
            claires = [c \in S |-> [registered_state |-> st[c], location |-> "ip1"]]
       /\ karl = IF S = {} THEN <<>> ELSE <<[up |-> TRUE, persisted_keepalives_info |-> <<>>]>>
       /\ store_size = IF S = {} THEN 0 ELSE 1 + Cardinality(S)
  /\ InitMemory

\* ------------------------------------------------------------------------
\* Time passes. The clock stops at MaxTime; it does not run past the point
\* where the constructor's `now` could still time out within the horizon.
Tick ==
  /\ clock < MaxTime
  /\ ctor_pc = "done" \/ clock + 1 + service_timeout_interval + 1 <= MaxTime
  /\ clock' = clock + 1
  /\ UNCHANGED <<sherlockvars, ingestvars, statusvars, lockvars, stream, storevars, cache, latest, destructing, rvars, nginxvars,
                 ctor_pc, dtor_pc, hvars, hist>>

\* ------------------------------------------------------------------------
\* A default-constructed KarlInfo: up, with no persisted_keepalives_info.
KarlInfoDefault == [up |-> TRUE, persisted_keepalives_info |-> <<>>]

\* The two maps and their mutexes.
CacheMap == "services_keepalive_time_cache_"
IndexMap == "latest_keepalive_index_plus_one_"
CacheMutex == "services_keepalive_cache_mutex_"
IndexMutex == "latest_keepalive_index_mutex_"
MutexOf(map) == IF map = CacheMap THEN CacheMutex ELSE IndexMutex

\* The sections of code that take a map's mutex or touch a map.
CacheSections == {"reconciler_pass", "reconciler_wait", "delete_cache", "post_cache"}
IndexSections == {"post_publish", "snapshot_ref", "snapshot_memo"}
BareSections == {"ctor_prepopulate", "snapshot_read"}

\* The mutexes a thread holds inside a section.
BothMutexesHeld(section) == {CacheMutex, IndexMutex}
MutexesHeld(section) ==
  IF section \in CacheSections THEN {CacheMutex}
  ELSE IF section \in IndexSections THEN {IndexMutex}
  ELSE {}

\* The maps a section reads or writes.
MapsAccessed(section) ==
  IF section \in {"ctor_prepopulate", "reconciler_pass", "delete_cache", "post_cache"}
    THEN {CacheMap}
  ELSE IF section \in {"post_publish", "snapshot_ref", "snapshot_read", "snapshot_memo"}
    THEN {IndexMap}
  ELSE {}

\* A thread runs through the sections: the history variables record a
\* section inside which two mutexes are held and a map that is accessed
\* without its mutex.
Enter(sections) ==
  /\ nested' = (nested \/ \E s \in sections : Cardinality(MutexesHeld(s)) > 1)
  /\ unguarded' = unguarded \cup
                    {m \in {CacheMap, IndexMap} :
                       \E s \in sections :
                         m \in MapsAccessed(s) /\ MutexOf(m) \notin MutexesHeld(s)}

\* GenericKarl::GenericKarl, the constructor body (the reconciler thread and
\* the HTTP routes are started by the member initializers before it runs).
\* One read-write transaction: it adds KarlInfo and, inside the transaction
\* and without the cache mutex, puts every Active codename into the cache.
CtorBody ==
  /\ ctor_pc = "body"
  /\ CanCommit
  /\ karl' = Append(karl,
                    [KarlInfoDefault EXCEPT
                       !.persisted_keepalives_info =
                         IF Len(stream) = 0 THEN <<>>
                         ELSE <<Len(stream) - 1, LastTimestamp(stream)>>])
  /\ store_size' = store_size + 1
  /\ cache' = [c \in DOMAIN cache \cup ActiveCodenames(claires) |->
                 IF c \in ActiveCodenames(claires) THEN clock ELSE cache[c]]
  /\ hist' = [c \in Codenames |->
                IF c \in ActiveCodenames(claires) THEN "restored" ELSE hist[c]]
  /\ ctor_pc' = "done"
  /\ Enter(IF ActiveCodenames(claires) # {} THEN {"ctor_prepopulate"} ELSE {})
  /\ UNCHANGED <<sherlockvars, ingestvars, statusvars, clock, stream, claires, detached, latest, destructing, rvars,
                 nginxvars, dtor_pc, hvars>>

\* ------------------------------------------------------------------------
\* GenericKarl::StateUpdateThread, the reconciler.

\* `while (!destructing_)`.
RCheck ==
  /\ rpc = "loop"
  /\ rpc' = IF destructing THEN "done" ELSE "pass"
  /\ r_deadline' = 0
  /\ UNCHANGED <<sherlockvars, ingestvars, statusvars, lockvars, clock, stream, storevars, cache, latest, destructing,
                 r_timeouted, r_most_recent, nginxvars,
                 ctor_pc, dtor_pc, hvars, hist>>

\* A partition that also times out an entry that is exactly
\* service_timeout_interval old.
TimedOutAtInterval(now, last) == (now - last) >= service_timeout_interval

\* The test of the partition.
TimedOut(now, last) == (now - last) > service_timeout_interval

RECURSIVE MaxOf(_)
MaxOf(S) == IF S = {} THEN 0
            ELSE LET x == CHOOSE y \in S : TRUE IN Max(x, MaxOf(S \ {x}))

\* The partition of the cache, under services_keepalive_cache_mutex_. `now`
\* is read right before the mutex is taken; the model reads it with it.
RPass ==
  /\ rpc = "pass"
  /\ LET now == clock
         gone == {c \in DOMAIN cache : TimedOut(now, cache[c])}
         kept == DOMAIN cache \ gone
     IN  /\ r_timeouted' = gone
         /\ cache' = [c \in kept |-> cache[c]]
         /\ r_most_recent' = MaxOf({cache[c] : c \in kept})
  /\ rpc' = "txn"
  /\ Enter({"reconciler_pass"})
  /\ UNCHANGED <<sherlockvars, ingestvars, statusvars, clock, stream, storevars, latest, destructing, r_deadline,
                 nginxvars, ctor_pc, dtor_pc, hvars, hist>>

\* The rows after the read-write transaction that marks every timed-out
\* codename DisconnectedByTimeout.
RECURSIVE MarkTimedOut(_, _)
MarkTimedOut(cl, S) ==
  IF S = {} THEN cl
  ELSE LET c == CHOOSE x \in S : TRUE
           claire == IF Exists(cl, c) THEN cl[c] ELSE SkeletalClaire
       IN  MarkTimedOut(Add(cl, c, [claire EXCEPT !.registered_state = "DisconnectedByTimeout"]),
                        S \ {c})

RTxn ==
  /\ rpc = "txn"
  /\ IF r_timeouted # {}
       THEN /\ CanCommit
            /\ claires' = MarkTimedOut(claires, r_timeouted)
            /\ store_size' = store_size + 1
       ELSE UNCHANGED <<claires, store_size>>
  /\ r_timeouted' = {}
  /\ rpc' = "nginx"
  /\ UNCHANGED <<sherlockvars, ingestvars, statusvars, lockvars, clock, stream, karl, detached, cache, latest, destructing,
                 r_most_recent, r_deadline, nginxvars,
                 ctor_pc, dtor_pc, hvars, hist>>

\* A materializer that rewrites the config on every tick.
RewriteEveryTick(first, current_stream_size, last_reflected_size) == TRUE

\* `first_run || current_stream_size != last_reflected_state_stream_size_`.
NeedsRewrite(first, current_stream_size, last_reflected_size) ==
  first \/ current_stream_size # last_reflected_size

\* KarlNginxManager::UpdateNginxIfNeeded, first half: read the size of the
\* store's backing log and decide.
RNginxSize ==
  /\ rpc = "nginx"
  /\ IF has_nginx
       THEN IF NeedsRewrite(first_run, store_size, last_reflected)
              THEN /\ r_size' = store_size
                   /\ rpc' = "nginx_txn"
              ELSE /\ r_size' = 0
                   /\ rpc' = "sleep"
       ELSE /\ rpc' = "sleep"
            /\ UNCHANGED r_size
  /\ UNCHANGED <<sherlockvars, ingestvars, statusvars, lockvars, clock, stream, storevars, cache, latest, destructing,
                 r_timeouted, r_most_recent, r_deadline,
                 has_nginx, first_run, last_reflected, nginx_config,
                 ctor_pc, dtor_pc, hvars, hist>>

\* A materializer that leaves out only the deregistered services.
UnlessDeregistered(claire) == claire.registered_state # "Deregistered"

\* `claire.registered_state == ClaireRegisteredState::Active`.
IsActive(claire) == claire.registered_state = "Active"

\* A ServerDirective with the catch-all location alone.
CatchAllOnly(cl) == {[location |-> <<"/">>, proxy_pass |-> "localhost:karl_port"]}

\* The ServerDirective built from the rows that the read-only transaction
\* iterates: the catch-all location to Karl's own port, and a location
\* <route_prefix>/<codename> to the StatusPageURL of the row's location.
ProxyPassLocations(cl) ==
  {[location |-> <<"/">>, proxy_pass |-> "localhost:karl_port"]}
    \cup {[location |-> <<"route_prefix", "/", c>>, proxy_pass |-> cl[c].location] :
            c \in {d \in DOMAIN cl : IsActive(cl[d])}}

\* Second half: the read-only transaction and the config update.
RNginxTxn ==
  /\ rpc = "nginx_txn"
  /\ CanCommit
  /\ nginx_config' = ProxyPassLocations(claires)
  /\ last_reflected' = r_size
  /\ first_run' = FALSE
  /\ r_size' = 0
  /\ rpc' = "sleep"
  /\ UNCHANGED <<sherlockvars, ingestvars, statusvars, lockvars, clock, stream, storevars, cache, latest, destructing,
                 r_timeouted, r_most_recent, r_deadline, has_nginx,
                 ctor_pc, dtor_pc, hvars, hist>>

\* A sleep of the whole service_timeout_interval, whatever the age of the
\* most recent keepalive.
WholeInterval(now, most_recent_keepalive_time) == service_timeout_interval

\* `service_timeout_interval_ - (Now() - most_recent_keepalive_time)`.
WaitInterval(now, most_recent_keepalive_time) ==
  service_timeout_interval - (now - most_recent_keepalive_time)

\* The end of the pass: take the cache mutex and wait on the condition
\* variable, with a deadline when a survivor exists.
RSleep ==
  /\ rpc = "sleep"
  /\ IF r_most_recent # 0
       THEN LET wait_interval == WaitInterval(clock, r_most_recent)
            IN  IF wait_interval > 0
                  THEN /\ rpc' = "wait_for"
                       /\ r_deadline' = clock + wait_interval + 1
                  ELSE /\ rpc' = "loop"
                       /\ UNCHANGED r_deadline
       ELSE /\ rpc' = "wait"
            /\ UNCHANGED r_deadline
  /\ r_most_recent' = 0
  /\ Enter({"reconciler_wait"})
  /\ UNCHANGED <<sherlockvars, ingestvars, statusvars, clock, stream, storevars, cache, latest, destructing,
                 r_timeouted, nginxvars,
                 ctor_pc, dtor_pc, hvars, hist>>

\* wait_for returns because the interval has elapsed.
RTimeout ==
  /\ rpc = "wait_for"
  /\ clock >= r_deadline
  /\ rpc' = "loop"
  /\ UNCHANGED <<sherlockvars, ingestvars, statusvars, lockvars, clock, stream, storevars, cache, latest, destructing,
                 r_timeouted, r_most_recent, r_deadline, nginxvars,
                 ctor_pc, dtor_pc, hvars, hist>>

\* A wait without a predicate may return spuriously.
RSpurious ==
  /\ rpc \in {"wait", "wait_for"}
  /\ rpc' = "loop"
  /\ UNCHANGED <<sherlockvars, ingestvars, statusvars, lockvars, clock, stream, storevars, cache, latest, destructing,
                 r_timeouted, r_most_recent, r_deadline, nginxvars,
                 ctor_pc, dtor_pc, hvars, hist>>

\* ------------------------------------------------------------------------
\* GenericKarl::~GenericKarl.
DtorBegin ==
  /\ ctor_pc = "done"
  /\ dtor_pc = "idle"
  /\ destructing' = TRUE
  /\ dtor_pc' = "txn"
  /\ UNCHANGED <<sherlockvars, ingestvars, statusvars, lockvars, clock, stream, storevars, cache, latest, rvars, nginxvars,
                 ctor_pc, hvars, hist>>

DtorTxn ==
  /\ dtor_pc = "txn"
  /\ CanCommit
  /\ karl' = Append(karl, [KarlInfoDefault EXCEPT !.up = FALSE])
  /\ store_size' = store_size + 1
  /\ dtor_pc' = "notify"
  /\ UNCHANGED <<sherlockvars, ingestvars, statusvars, lockvars, clock, stream, claires, detached, cache, latest, destructing,
                 rvars, nginxvars, ctor_pc, hvars, hist>>

DtorNotify ==
  /\ dtor_pc = "notify"
  /\ rpc' = NotifyOne(rpc)
  /\ dtor_pc' = "join"
  /\ UNCHANGED <<sherlockvars, ingestvars, statusvars, lockvars, clock, stream, storevars, cache, latest, destructing,
                 r_timeouted, r_most_recent, r_deadline, nginxvars,
                 ctor_pc, hvars, hist>>

DtorJoin ==
  /\ dtor_pc = "join"
  /\ rpc = "done"
  /\ dtor_pc' = "done"
  /\ UNCHANGED <<sherlockvars, ingestvars, statusvars, lockvars, clock, stream, storevars, cache, latest, destructing, rvars,
                 nginxvars, ctor_pc, hvars, hist>>

\* ------------------------------------------------------------------------
\* GenericKarl::Serve and GenericKarl::ServeSnapshot, run by the HTTP threads.

\* A request is served by the first thread of the pool that is free.
Idle(h) == hpc[h] = "idle" /\ \A g \in Handlers : g < h => hpc[g] # "idle"
Accepting == dtor_pc # "done"

\* A POST for codename c is between its start and its return.
PostInFlight(c) ==
  \E h \in Handlers : hc[h] = c /\ hpc[h] \in {"post_txn", "post_cache"}

\* A request for codename c has been received and not been completed.
InFlight(c) ==
  \/ \E h \in Handlers : hc[h] = c
  \/ \E i \in 1..Len(detached) : detached[i] = c

\* The handler is done with the request and holds no locals any more; it
\* is back in the pool, unless what it did was only to answer `code`.
Finish(h, code) ==
  /\ hpc' = [hpc EXCEPT ![h] = code]
  /\ hc' = [hc EXCEPT ![h] = NoCodename]
  /\ hip' = [hip EXCEPT ![h] = NoIp]
  /\ hnow' = [hnow EXCEPT ![h] = 0]
  /\ hindex' = [hindex EXCEPT ![h] = 0]
  /\ hsize' = [hsize EXCEPT ![h] = 0]

\* A handler that has only answered returns to the pool.
Return(h) ==
  /\ hpc[h] \in {"answered_200_NOP", "answered_400", "answered_405",
                "answered_400_callback_error", "answered_400_json_parse_error"}
  /\ hpc' = [hpc EXCEPT ![h] = "idle"]
  /\ UNCHANGED <<sherlockvars, ingestvars, statusvars, lockvars, clock, stream, storevars, cache, latest, destructing, rvars,
                 nginxvars, ctor_pc, dtor_pc, hc, hip, hnow, hindex, hsize, hist>>

\* Any method other than GET, POST, DELETE.
ServeOther(h) ==
  /\ Idle(h) /\ Accepting
  /\ Finish(h, "answered_405")
  /\ UNCHANGED <<sherlockvars, ingestvars, statusvars, lockvars, clock, stream, storevars, cache, latest, destructing, rvars,
                 nginxvars, ctor_pc, dtor_pc, hist>>

\* DELETE without `codename`.
DeleteNop(h) ==
  /\ Idle(h) /\ Accepting
  /\ Finish(h, "answered_200_NOP")
  /\ UNCHANGED <<sherlockvars, ingestvars, statusvars, lockvars, clock, stream, storevars, cache, latest, destructing, rvars,
                 nginxvars, ctor_pc, dtor_pc, hist>>

\* DELETE with `codename`: submit the read-write transaction and Detach()
\* it; the transaction will also respond.
DeleteSubmit(h, c) ==
  /\ Idle(h) /\ Accepting
  /\ store_size < MaxStoreSize
  /\ Len(detached) < MaxDetached
  /\ detached' = Append(detached, c)
  /\ hc' = [hc EXCEPT ![h] = c]
  /\ hpc' = [hpc EXCEPT ![h] = "del_cache"]
  /\ UNCHANGED <<sherlockvars, ingestvars, statusvars, lockvars, clock, stream, claires, karl, store_size, cache, latest,
                 destructing, rvars, nginxvars, ctor_pc, dtor_pc,
                 hip, hnow, hindex, hsize, hist>>

\* What the DELETE transaction writes: `claire` with
\* registered_state = Deregistered.
DeregisteredAnew(claire) == [SkeletalClaire EXCEPT !.registered_state = "Deregistered"]
MarkDeregistered(claire) == [claire EXCEPT !.registered_state = "Deregistered"]

\* The store commits the oldest detached DELETE transaction.
DeleteTxn ==
  /\ detached # <<>>
  /\ LET c == Head(detached)
         claire == IF Exists(claires, c) THEN claires[c] ELSE SkeletalClaire
     IN  /\ claires' = Add(claires, c, MarkDeregistered(claire))
         /\ hist' = [hist EXCEPT ![c] = IF PostInFlight(c) THEN "mixed" ELSE "delete"]
  /\ detached' = Tail(detached)
  /\ store_size' = store_size + 1
  /\ UNCHANGED <<sherlockvars, ingestvars, statusvars, lockvars, clock, stream, karl, cache, latest, destructing, rvars,
                 nginxvars, ctor_pc, dtor_pc, hvars>>

\* DELETE: erase the codename from the cache, under the cache mutex.
DeleteCache(h) ==
  /\ hpc[h] = "del_cache"
  /\ cache' = Erase(cache, hc[h])
  /\ hpc' = [hpc EXCEPT ![h] = "del_notify"]
  /\ Enter({"delete_cache"})
  /\ UNCHANGED <<sherlockvars, ingestvars, statusvars, clock, stream, storevars, latest, destructing, rvars,
                 nginxvars, ctor_pc, dtor_pc, hc, hip, hnow, hindex, hsize, hist>>

\* DELETE: notify_one(), outside the mutex.
DeleteNotify(h) ==
  /\ hpc[h] = "del_notify"
  /\ rpc' = NotifyOne(rpc)
  /\ Finish(h, "idle")
  /\ UNCHANGED <<sherlockvars, ingestvars, statusvars, lockvars, clock, stream, storevars, cache, latest, destructing,
                 r_timeouted, r_most_recent, r_deadline,
                 nginxvars, ctor_pc, dtor_pc, hist>>

\* POST that is answered 400: callback failure, JSON parse error, or
\* query parameters that differ from the body.
PostRejected(h) ==
  /\ Idle(h) /\ Accepting
  /\ Finish(h, "answered_400")
  /\ UNCHANGED <<sherlockvars, ingestvars, statusvars, lockvars, clock, stream, storevars, cache, latest, destructing, rvars,
                 nginxvars, ctor_pc, dtor_pc, hist>>

\* The value the ingest stores in latest_keepalive_index_plus_one_ for an
\* entry published at index `index`: the index itself. Indexes are 0-based
\* positions, as the scan of ServeSnapshot and its Iterate(index - 1) take
\* them to be.
IngestIndexValue(index) == index

\* An ingest that goes to the store without publishing to (A).
PostWithoutPublish(h, c, ip) ==
  /\ Idle(h) /\ Accepting
  /\ Len(stream) < MaxStreamLen
  /\ clock + service_timeout_interval + 1 <= MaxTime
  /\ hc' = [hc EXCEPT ![h] = c]
  /\ hip' = [hip EXCEPT ![h] = ip]
  /\ hnow' = [hnow EXCEPT ![h] = clock]
  /\ hpc' = [hpc EXCEPT ![h] = "post_txn"]
  /\ hist' = [hist EXCEPT ![c] = IF @ = "delete" THEN "mixed" ELSE @]
  /\ UNCHANGED <<sherlockvars, ingestvars, statusvars, lockvars, clock, stream, latest, storevars, cache, destructing, rvars,
                 nginxvars, ctor_pc, dtor_pc, hindex, hsize>>

\* kUpdateServerInfoThresholdByTimeSkewDifference, scaled as the clock is.
kUpdateServerInfoThresholdByTimeSkewDifference == 2

Abs(x) == IF x < 0 THEN -x ELSE x

\* Integer division of C++: the quotient is truncated towards zero.
TruncDiv(x, d) == IF x < 0 THEN -((-x) \div d) ELSE x \div d

\* The keepalive as it is persisted: the published entry with the status'
\* runtime variant, which is empty when only the shallow parse succeeded.
WithRuntimeOnAll(s, runtime) ==
  [i \in DOMAIN s |-> [codename |-> s[i].codename, us |-> s[i].us, runtime |-> runtime]]

WithRuntime(s, runtime) ==
  [s EXCEPT ![Len(s)] = [codename |-> @.codename, us |-> @.us, runtime |-> runtime]]

\* now - body.now - last_successful_ping_epoch_microseconds / 2, when the
\* status carries the ping.
BehindThisBy(now, body) ==
  IF body.last_successful_ping_epoch_microseconds # <<>>
    THEN <<now - body.now - TruncDiv(body.last_successful_ping_epoch_microseconds[1], 2)>>
    ELSE <<>>

\* POST with a consistent, parseable status: `now = Now()`, then Publish to
\* (A) and store the index, under latest_keepalive_index_mutex_; the
\* optional build and the optional time skew are kept for the transaction.
PostStatus(h, ip, body) ==
  /\ Idle(h) /\ Accepting
  /\ Len(stream) < MaxStreamLen
  /\ clock + service_timeout_interval + 1 <= MaxTime
  /\ hc' = [hc EXCEPT ![h] = body.codename]
  /\ hip' = [hip EXCEPT ![h] = ip]
  /\ hnow' = [hnow EXCEPT ![h] = clock]
  /\ hbuild' = [hbuild EXCEPT ![h] = body.build]
  /\ hbehind' = [hbehind EXCEPT ![h] = BehindThisBy(clock, body)]
  /\ stream' = WithRuntime(PersistencePublish(stream, body.codename, clock), body.runtime)
  /\ latest' = [latest EXCEPT ![body.codename] = IngestIndexValue(Len(stream))]
  /\ hpc' = [hpc EXCEPT ![h] = "post_txn"]
  /\ hist' = [hist EXCEPT ![body.codename] = IF @ = "delete" THEN "mixed" ELSE @]
  /\ Enter({"post_publish"})
  /\ UNCHANGED <<sherlockvars, servers, builds, statusvars, clock, storevars, cache,
                 destructing, rvars, nginxvars, ctor_pc, dtor_pc, hindex, hsize>>

\* A status with its runtime variant, without a build and without the ping.
PlainStatus(c) ==
  [codename |-> c, runtime |-> "variant", build |-> <<>>, now |-> 0,
   last_successful_ping_epoch_microseconds |-> <<>>]

PostPublish(h, c, ip) == PostStatus(h, ip, PlainStatus(c))

\* The condition under which the ingest writes ClaireInfo[codename].
NeedClaireUpdateIgnoringLocation(cl, c, location) ==
  IF ~Exists(cl, c) THEN TRUE
  ELSE IF cl[c].registered_state # "Active" THEN TRUE
  ELSE FALSE

NeedClaireUpdate(cl, c, location) ==
  IF ~Exists(cl, c) THEN TRUE
  ELSE IF cl[c].location # location THEN TRUE
  ELSE IF cl[c].registered_state # "Active" THEN TRUE
  ELSE FALSE

\* A ServerInfo upsert that writes every reported skew.
NeedServerUpdateAtAnySkew(sv, ip, behind) == behind # <<>>

\* The condition under which the ingest writes ServerInfo[location.ip].
NeedServerUpdate(sv, ip, behind) ==
  /\ behind # <<>>
  /\ IF Exists(sv, ip)
       THEN ~(Abs(sv[ip] - behind[1]) < kUpdateServerInfoThresholdByTimeSkewDifference)
       ELSE TRUE

\* The condition under which the ingest writes ClaireBuildInfo[codename].
NeedBuildWhenAbsent(bd, c, build) == build # <<>> /\ ~Exists(bd, c)
NeedBuildUpdate(bd, c, build) ==
  /\ build # <<>>
  /\ (~Exists(bd, c) \/ bd[c] # build[1])

\* The body of the ingest's read-write transaction: the three upserts. The
\* store's log grows by one entry when the transaction has written.
IngestWrites(h) ==
  LET server == NeedServerUpdate(servers, hip[h], hbehind[h])
      build == NeedBuildUpdate(builds, hc[h], hbuild[h])
      claire == NeedClaireUpdate(claires, hc[h], hip[h])
  IN  /\ servers' = IF server THEN Add(servers, hip[h], hbehind[h][1]) ELSE servers
      /\ builds' = IF build THEN Add(builds, hc[h], hbuild[h][1]) ELSE builds
      /\ claires' = IF claire
                      THEN Add(claires, hc[h],
                               [registered_state |-> "Active", location |-> hip[h]])
                      ELSE claires
      /\ store_size' = IF server \/ build \/ claire THEN store_size + 1 ELSE store_size
      /\ UNCHANGED <<hbuild, hbehind>>

\* An ingest whose transaction also adds a KarlInfo record.
PostTxnAddingKarlInfo(h) ==
  /\ hpc[h] = "post_txn"
  /\ CanCommit
  /\ IngestWrites(h)
  /\ karl' = Append(karl, KarlInfoDefault)
  /\ hpc' = [hpc EXCEPT ![h] = "post_cache"]
  /\ hist' = [hist EXCEPT ![hc[h]] = "ingest"]
  /\ UNCHANGED <<sherlockvars, statusvars, lockvars, clock, stream, detached, cache, latest,
                 destructing, rvars, nginxvars, ctor_pc, dtor_pc, hc, hip, hnow, hindex,
                 hsize>>

\* POST: the read-write transaction on (B), which also responds 200. A
\* location is the peer's ip.
PostTxn(h) ==
  /\ hpc[h] = "post_txn"
  /\ CanCommit
  /\ IngestWrites(h)
  /\ hpc' = [hpc EXCEPT ![h] = "post_cache"]
  /\ hist' = [hist EXCEPT ![hc[h]] = "ingest"]
  /\ UNCHANGED <<sherlockvars, statusvars, lockvars, clock, stream, karl, detached, cache,
                 latest, destructing, rvars, nginxvars, ctor_pc, dtor_pc, hc, hip, hnow,
                 hindex, hsize>>

\* A cache update that notifies whatever the placeholder holds.
AnyCount(placeholder) == TRUE

\* `placeholder.count() == 0`: operator[] has just value-initialized the
\* entry, so the codename was not in the cache.
CountIsZero(placeholder) == placeholder = 0

\* POST: refresh the cache under the cache mutex; notify only if the
\* codename was not there.
PostCache(h) ==
  /\ hpc[h] = "post_cache"
  /\ LET placeholder == IF Exists(cache, hc[h]) THEN cache[hc[h]] ELSE 0
     IN  rpc' = IF CountIsZero(placeholder) THEN NotifyOne(rpc) ELSE rpc
  /\ cache' = Add(cache, hc[h], hnow[h])
  /\ Finish(h, "idle")
  /\ Enter({"post_cache"})
  /\ hbuild' = [hbuild EXCEPT ![h] = <<>>]
  /\ hbehind' = [hbehind EXCEPT ![h] = <<>>]
  /\ UNCHANGED <<sherlockvars, servers, builds, statusvars, clock, stream, storevars, latest, destructing,
                 r_timeouted, r_most_recent, r_deadline,
                 nginxvars, ctor_pc, dtor_pc, hist>>

\* GET /snapshot/<codename>: read the cached index.
SnapBegin(h, c) ==
  /\ Idle(h) /\ Accepting
  /\ hc' = [hc EXCEPT ![h] = c]
  /\ hindex' = [hindex EXCEPT ![h] = latest[c]]
  /\ hsize' = [hsize EXCEPT ![h] = Len(stream)]
  /\ hpc' = [hpc EXCEPT ![h] = IF latest[c] = 0 THEN "snap_scan" ELSE "snap_respond"]
  /\ Enter({"snapshot_ref", "snapshot_read"})
  /\ UNCHANGED <<sherlockvars, ingestvars, statusvars, clock, stream, storevars, cache, latest, destructing, rvars,
                 nginxvars, ctor_pc, dtor_pc, hip, hnow, hist>>

\* A scan that stops at the first entry of the codename, from the end of
\* the first n entries backwards to the oldest one.
RECURSIVE ScanFirstIndex(_, _, _)
ScanFirstIndex(s, c, n) ==
  IF n = 0 THEN 0
  ELSE IF ScanFirstIndex(s, c, n - 1) # 0 THEN ScanFirstIndex(s, c, n - 1)
  ELSE IF s[n].codename = c THEN (n - 1) + 1
  ELSE 0

\* The result of the scan of the first n entries: index + 1 of the last
\* entry of the codename, 0 if there is none.
RECURSIVE ScanIndex(_, _, _)
ScanIndex(s, c, n) ==
  IF n = 0 THEN 0
  ELSE IF s[n].codename = c THEN (n - 1) + 1
  ELSE ScanIndex(s, c, n - 1)

SnapScan(h) ==
  /\ hpc[h] = "snap_scan"
  /\ LET index == ScanIndex(stream, hc[h], Len(stream))
     IN  IF index # 0
           THEN /\ hindex' = [hindex EXCEPT ![h] = index]
                /\ hpc' = [hpc EXCEPT ![h] = "snap_memo"]
                /\ UNCHANGED <<hc, hip, hnow, hsize>>
           ELSE Finish(h, "idle")
  /\ UNCHANGED <<sherlockvars, ingestvars, statusvars, lockvars, clock, stream, storevars, cache, latest, destructing, rvars,
                 nginxvars, ctor_pc, dtor_pc, hist>>

\* Memoize the scan's result under latest_keepalive_index_mutex_.
SnapMemo(h) ==
  /\ hpc[h] = "snap_memo"
  /\ latest' = [latest EXCEPT ![hc[h]] = Max(latest[hc[h]], hindex[h])]
  /\ hpc' = [hpc EXCEPT ![h] = "snap_respond"]
  /\ Enter({"snapshot_memo"})
  /\ UNCHANGED <<sherlockvars, ingestvars, statusvars, clock, stream, storevars, cache, destructing, rvars,
                 nginxvars, ctor_pc, dtor_pc, hc, hip, hnow, hindex, hsize, hist>>

\* The entry the snapshot handler is about to serve:
\* *Iterate(index - 1).begin(), with its timestamp rebased to now.
SnapshotEntry(h) ==
  LET e == stream[(hindex[h] - 1) + 1]
  IN  [e EXCEPT !.us = e.us - clock]

SnapRespond(h) ==
  /\ hpc[h] = "snap_respond"
  /\ Finish(h, "idle")
  /\ UNCHANGED <<sherlockvars, ingestvars, statusvars, lockvars, clock, stream, storevars, cache, latest, destructing, rvars,
                 nginxvars, ctor_pc, dtor_pc, hist>>

\* ------------------------------------------------------------------------
\* Karl with the default KarlNginxParameters (no config file): keepalives
\* and deregistrations arrive while the reconciler runs, and Karl may be
\* destroyed.
InitNoNginx == Init /\ has_nginx = FALSE

Ingest ==
  \E h \in Handlers :
    \/ \E c \in Codenames, ip \in Ips : PostPublish(h, c, ip)
    \/ PostTxn(h)
    \/ PostCache(h)

Deregister ==
  \/ DeleteTxn
  \/ \E h \in Handlers :
       \/ \E c \in Codenames : DeleteSubmit(h, c)
       \/ DeleteCache(h)
       \/ DeleteNotify(h)

\* The steps of a request that has been accepted, the commit of its
\* detached transaction included.
HandlerStep ==
  \/ DeleteTxn
  \/ \E h \in Handlers :
       \/ PostTxn(h) \/ PostCache(h)
       \/ DeleteCache(h) \/ DeleteNotify(h)

Reconciler == RCheck \/ RPass \/ RTxn \/ RNginxSize \/ RSleep \/ RTimeout

Destructor == DtorTxn \/ DtorNotify \/ DtorJoin

Next ==
  \/ Tick
  \/ CtorBody
  \/ Reconciler
  \/ RSpurious
  \/ DtorBegin
  \/ Destructor
  \/ Ingest
  \/ Deregister

Spec == InitNoNginx /\ [][Next]_vars

\* The scheduler runs every thread that can run: the reconciler, the
\* constructor, a started destructor and started handlers; time passes.
\* Nothing obliges a client to send a request, Karl to be destroyed, or a
\* wait to return spuriously.
FairSpec ==
  /\ Spec
  /\ WF_vars(Tick)
  /\ WF_vars(CtorBody)
  /\ WF_vars(Reconciler)
  /\ WF_vars(Destructor)
  /\ WF_vars(HandlerStep)

\* ------------------------------------------------------------------------
\* Keepalives and snapshot queries, from the moment the routes are
\* registered.
Snapshot ==
  \E h \in Handlers :
    \/ \E c \in Codenames : SnapBegin(h, c)
    \/ SnapScan(h)
    \/ SnapMemo(h)
    \/ SnapRespond(h)

SnapshotNext ==
  \/ Tick
  \/ CtorBody
  \/ Ingest
  \/ Snapshot

SnapshotSpec == InitNoNginx /\ [][SnapshotNext]_vars

\* ------------------------------------------------------------------------
\* Every code path that takes one of the two map mutexes: the constructor
\* body, the reconciler, and the ingest, DELETE and snapshot handlers.
LockNext ==
  \/ Tick
  \/ CtorBody
  \/ Reconciler
  \/ RSpurious
  \/ Ingest
  \/ Deregister
  \/ Snapshot

LockSpec == InitNoNginx /\ [][LockNext]_vars

\* ------------------------------------------------------------------------
\* POST with its query string: `codename` and `port` are optional in the
\* query, the status JSON (the body, or the answer to the callback) always
\* carries codename and local_port.
BodyPorts == {7000, 7001}
QueryPorts == {"", "7000", "7001"}
QueryCodenames == Codenames \cup {NoCodename}

\* current::FromString<uint16_t>(qs["port"])
PortFromString(str) ==
  IF str = "7000" THEN 7000 ELSE IF str = "7001" THEN 7001 ELSE 0

\* The condition of the `if` that guards the ingest.
AlwaysConsistent(qs_codename, qs_port, body_codename, body_local_port) == TRUE
Consistent(qs_codename, qs_port, body_codename, body_local_port) ==
  /\ (qs_codename = NoCodename \/ body_codename = qs_codename)
  /\ (qs_port = "" \/ body_local_port = PortFromString(qs_port))

Post(h, qs_codename, qs_port, body_codename, body_local_port, ip) ==
  IF Consistent(qs_codename, qs_port, body_codename, body_local_port)
    THEN PostPublish(h, body_codename, ip)
    ELSE PostRejected(h)

Requests ==
  \E h \in Handlers :
    \/ \E qc \in QueryCodenames, qp \in QueryPorts, bc \in Codenames,
          bp \in BodyPorts, ip \in Ips : Post(h, qc, qp, bc, bp, ip)
    \/ PostTxn(h)
    \/ PostCache(h)
    \/ ServeOther(h)
    \/ Return(h)

RequestNext ==
  \/ Tick
  \/ CtorBody
  \/ Reconciler
  \/ RSpurious
  \/ Requests

RequestSpec == InitNoNginx /\ [][RequestNext]_vars

\* ------------------------------------------------------------------------
\* Keepalives in full: from two peers, with or without a build, with or
\* without the ping estimate.
IngestIps == {"ip1", "ip2"}
BuildValues == {"b1", "b2"}
OptionalBuilds == {<<>>} \cup {<<b>> : b \in BuildValues}
OptionalPings == {<<>>, <<0>>, <<2>>, <<-3>>}

IngestBodies ==
  {[codename |-> c, runtime |-> "variant", build |-> b, now |-> 0,
    last_successful_ping_epoch_microseconds |-> p] :
     c \in Codenames, b \in OptionalBuilds, p \in OptionalPings}

FullIngest ==
  \E h \in Handlers :
    \/ \E ip \in IngestIps, body \in IngestBodies : PostStatus(h, ip, body)
    \/ PostTxn(h)
    \/ PostCache(h)

IngestNext ==
  \/ Tick
  \/ CtorBody
  \/ FullIngest

IngestSpec == InitNoNginx /\ [][IngestNext]_vars

\* Keepalives with builds and pings, and deregistrations; no time passes.
DeregisterNext ==
  \/ CtorBody
  \/ FullIngest
  \/ Deregister

DeregisterSpec == InitNoNginx /\ [][DeregisterNext]_vars

\* ------------------------------------------------------------------------
\* A Karl constructed with an Nginx config file: the reconciler's passes
\* regenerate the proxy config while keepalives arrive and time out; the
\* previous launch may have left a deregistered service.
InitNginx == Init /\ has_nginx = TRUE

NginxNext ==
  \/ Tick
  \/ CtorBody
  \/ Reconciler
  \/ RNginxTxn
  \/ Ingest

NginxSpec == InitNginx /\ [][NginxNext]_vars

\* The materializer while keepalives and deregistrations arrive; no time
\* passes, and the reconciler runs a pass whenever its wait returns.
ReflectNext ==
  \/ CtorBody
  \/ RCheck \/ RPass \/ RTxn \/ RNginxSize \/ RNginxTxn \/ RSleep
  \/ RSpurious
  \/ Ingest
  \/ Deregister

ReflectSpec == InitNginx /\ [][ReflectNext]_vars

\* The same, for a Karl constructed with or without the config file.
MaterializerSpec == Init /\ [][NginxNext]_vars

\* ------------------------------------------------------------------------
\* GET /: BuildStatusAndRespondWithIt. The handler reads `now`, derives the
\* window, iterates the stream and builds report_for_codename; then a
\* read-only transaction on the store filters and resolves the codenames
\* and responds. The model keeps the handler until its transaction has run.
WindowLengths == {1, MaxTime}

NoInterval == 0
Intervals == {NoInterval, MaxTime + 1}

\* `from` of the query `m=<minutes>`.
WindowFrom(now, length) == now - length

\* `to`: from + interval_us when the query has it, now by default.
WindowTo(now, from, interval) == IF interval # NoInterval THEN from + interval ELSE now

\* if (e.idx_ts.us >= from && e.idx_ts.us < to)
InWindow(e, from, to) == e.us >= from /\ e.us < to

\* report.currently
AlwaysUp(now, us) == "up"
Currently(now, us) == IF (now - us) < service_timeout_interval THEN "up" ELSE "down"

\* The loop over the stream's first n entries, from entry i on: every entry
\* of the window overwrites report_for_codename[keepalive.codename].
RECURSIVE BuildReport(_, _, _, _, _, _, _)
BuildReport(s, i, n, now, from, to, report) ==
  IF i > n THEN report
  ELSE BuildReport(s, i + 1, n, now, from, to,
                   IF InWindow(s[i], from, to)
                     THEN Add(report, s[i].codename, Currently(now, s[i].us))
                     ELSE report)

\* resolved_codenames[codename]: the location of the row, or the key with
\* ip "zombie/" + codename and port 0. A row's location is its ip; the
\* services all listen on the same port.
Resolved(cl, c) ==
  IF Exists(cl, c)
    THEN [ip |-> <<cl[c].location>>, port |-> 7000]
    ELSE [ip |-> <<"zombie/", c>>, port |-> 0]

\* A filter that keeps only the codenames with an Active row.
OmittedUnlessActive(active_only, cl, c) ==
  active_only /\ ~(Exists(cl, c) /\ cl[c].registered_state = "Active")

\* The `continue` of the active_only filter.
OmittedAsNotActive(active_only, cl, c) ==
  active_only /\ Exists(cl, c) /\ cl[c].registered_state # "Active"

\* The lengths of a minute, an hour and a day and the default number of
\* minutes (scaled).
Minute == 1
Hour == 2
Day == 3
DefaultMinutes == 5

\* A `from` that looks at `m` before it looks at `from`.
FromPreferringMinutes(now, q) ==
  IF q.m # <<>> THEN WindowFrom(now, q.m[1] * Minute)
  ELSE IF q.from # <<>> THEN q.from[1]
  ELSE IF q.h # <<>> THEN WindowFrom(now, q.h[1] * Hour)
  ELSE IF q.d # <<>> THEN WindowFrom(now, q.d[1] * Day)
  ELSE WindowFrom(now, DefaultMinutes * Minute)

\* `from`: the first of the query's from, m, h, d that is there, five
\* minutes before now otherwise.
FromOf(now, q) ==
  IF q.from # <<>> THEN q.from[1]
  ELSE IF q.m # <<>> THEN WindowFrom(now, q.m[1] * Minute)
  ELSE IF q.h # <<>> THEN WindowFrom(now, q.h[1] * Hour)
  ELSE IF q.d # <<>> THEN WindowFrom(now, q.d[1] * Day)
  ELSE WindowFrom(now, DefaultMinutes * Minute)

\* `to`: the query's to, else from + interval_us, else now.
ToOf(now, from, q) ==
  IF q.to # <<>> THEN q.to[1]
  ELSE WindowTo(now, from, IF q.interval_us # <<>> THEN q.interval_us[1] ELSE NoInterval)

\* GET /, up to the transaction, for a query q.
StatusQuery(h, q, active_only) ==
  /\ Idle(h) /\ Accepting
  /\ hnow' = [hnow EXCEPT ![h] = clock]
  /\ status' = [status EXCEPT ![h] =
                  [from |-> FromOf(clock, q),
                   to |-> ToOf(clock, FromOf(clock, q), q),
                   active_only |-> active_only, size |-> Len(stream),
                   report |-> BuildReport(stream, 1, Len(stream), clock,
                                          FromOf(clock, q),
                                          ToOf(clock, FromOf(clock, q), q),
                                          <<>>)]]
  /\ hpc' = [hpc EXCEPT ![h] = "status_txn"]
  /\ UNCHANGED <<sherlockvars, ingestvars, lockvars, clock, stream, storevars, cache, latest,
                 destructing, rvars, nginxvars, ctor_pc, dtor_pc, hc, hip, hindex,
                 hsize, hist, result>>

\* GET /?m=<length>, with interval_us when interval is not NoInterval.
StatusScan(h, length, interval, active_only) ==
  StatusQuery(h, [from |-> <<>>, m |-> <<length>>, h |-> <<>>, d |-> <<>>, to |-> <<>>,
                  interval_us |-> IF interval # NoInterval THEN <<interval>> ELSE <<>>],
              active_only)

StatusTxn(h) ==
  /\ hpc[h] = "status_txn"
  /\ CanCommit
  /\ LET st == status[h]
     IN  result' =
           [responded |-> TRUE, now |-> hnow[h], from |-> st.from, to |-> st.to,
            active_only |-> st.active_only, size |-> st.size,
            services |->
              [c \in {d \in DOMAIN st.report :
                        ~OmittedAsNotActive(st.active_only, claires, d)} |->
                 st.report[c]],
            registered |->
              [c \in DOMAIN st.report |->
                 IF Exists(claires, c) THEN claires[c].registered_state ELSE "none"],
            location |->
              [c \in {d \in DOMAIN st.report :
                        ~OmittedAsNotActive(st.active_only, claires, d)} |->
                 Resolved(claires, c)]]
  /\ hpc' = [hpc EXCEPT ![h] = "status_done"]
  /\ UNCHANGED <<sherlockvars, ingestvars, lockvars, clock, stream, storevars, cache, latest,
                 destructing, rvars, nginxvars, ctor_pc, dtor_pc, hc, hip, hnow, hindex,
                 hsize, hist, status>>

\* The response has been sent; the handler returns to the pool.
StatusReturn(h) ==
  /\ hpc[h] = "status_done"
  /\ Finish(h, "idle")
  /\ status' = [status EXCEPT ![h] = NoStatus]
  /\ result' = NoResult
  /\ UNCHANGED <<sherlockvars, ingestvars, lockvars, clock, stream, storevars, cache, latest,
                 destructing, rvars, nginxvars, ctor_pc, dtor_pc, hist>>

Status ==
  \E h \in Handlers :
    \/ \E length \in WindowLengths, interval \in Intervals, active_only \in BOOLEAN :
         StatusScan(h, length, interval, active_only)
    \/ StatusTxn(h)
    \/ StatusReturn(h)

StatusNext ==
  \/ Tick
  \/ CtorBody
  \/ Ingest
  \/ Deregister
  \/ Status

StatusSpec == InitNoNginx /\ [][StatusNext]_vars

\* ------------------------------------------------------------------------
\* GET / with every combination of from, m, h, d, to and interval_us in the
\* query, while keepalives arrive and time passes.
Queries ==
  [from : {<<>>, <<StartTime>>}, m : {<<>>, <<1>>}, h : {<<>>, <<1>>}, d : {<<>>, <<1>>},
   to : {<<>>, <<MaxTime>>}, interval_us : {<<>>, <<2>>}]

WindowNext ==
  \/ Tick
  \/ CtorBody
  \/ Ingest
  \/ \E h \in Handlers :
       \/ \E q \in Queries, active_only \in BOOLEAN : StatusQuery(h, q, active_only)
       \/ StatusTxn(h)
       \/ StatusReturn(h)

WindowSpec == InitNoNginx /\ [][WindowNext]_vars

\* ------------------------------------------------------------------------
\* A launch after a crash between the publish of the first keepalive to (A)
\* and the commit of its transaction to (B): the stream holds an entry of a
\* codename that has no row; the store holds the KarlInfo of the launch
\* that crashed.
InitUncommitted ==
  /\ clock = StartTime
  /\ stream = PersistedStream({PersistedCodenames[1]})
  /\ claires = <<>>
  /\ karl = <<KarlInfoDefault>>
  /\ store_size = 1
  /\ InitMemory
  /\ has_nginx = FALSE

UncommittedSpec == InitUncommitted /\ [][StatusNext]_vars

\* ------------------------------------------------------------------------
\* A launch after a restart: the stream on disk is full of the keepalives of
\* the previous launch, each codename of it has a row, and the index cache
\* is empty. Snapshot queries arrive.
InitRestarted ==
  /\ clock = MaxStreamLen + 1
  /\ \E s \in [1..MaxStreamLen -> Codenames] :
       /\ stream = [i \in 1..MaxStreamLen |-> [codename |-> s[i], us |-> i]]
       /\ \E st \in [{s[i] : i \in 1..MaxStreamLen} -> RegisteredStates] :
            claires = [c \in DOMAIN st |-> [registered_state |-> st[c], location |-> "ip1"]]
       /\ karl = <<KarlInfoDefault>>
       /\ store_size = 1 + Cardinality({s[i] : i \in 1..MaxStreamLen})
  /\ InitMemory
  /\ has_nginx = FALSE

RestartedNext ==
  \/ Tick
  \/ CtorBody
  \/ Snapshot

RestartedSpec == InitRestarted /\ [][RestartedNext]_vars

\* ------------------------------------------------------------------------
\* GenericKarl::Serve as a whole: the method, the query string, the body and
\* what the reverse callback would return.
Methods == {"GET", "POST", "DELETE", "PUT"}

\* A JSON text: one that is not a ClaireStatus, or a status whose runtime is
\* one of the variant's types or is not.
NotAStatus == [is_status |-> FALSE, codename |-> NoCodename, local_port |-> 0, runtime |-> ""]
Jsons ==
  {NotAStatus}
    \cup {[is_status |-> TRUE, codename |-> "a", local_port |-> 7000, runtime |-> rt] :
            rt \in {"variant", "unknown"}}
    \cup {[is_status |-> TRUE, codename |-> "b", local_port |-> 7000, runtime |-> "variant"]}

\* HTTP(GET(url + ...)): throws a NetworkException, <<>> here, or returns a
\* response with a body.
CallbackResults == {<<>>} \cup {<<json>> : json \in Jsons}

\* A server that serves every method.
AnyMethod(method) == TRUE

\* The methods that pass the check at the top of Serve.
AcceptedMethod(method) == method = "GET" \/ method = "POST" \/ method = "DELETE"

\* A callback made whenever `confirm` is in the query.
CallsBackOnConfirm(confirm, qs_port) == confirm

\* `qs.has("confirm") && qs.has("port")`.
CallsBack(confirm, qs_port) == confirm /\ qs_port # ""

\* ParseJSON<claire_status_t>(json) does not throw: the runtime is one of the
\* types of the variant.
ParsesInDetail(json) == json.is_status /\ json.runtime = "variant"

\* ParseJSON<ClaireStatus>(json) does not throw.
ParsesAsClaireStatus(json) == json.is_status

\* The status that is persisted: the detailed one, or the shallow one with
\* the runtime left empty.
StatusOf(json) ==
  [codename |-> json.codename,
   runtime |-> IF ParsesInDetail(json) THEN json.runtime ELSE "empty",
   build |-> <<>>, now |-> 0, last_successful_ping_epoch_microseconds |-> <<>>]

\* A POST that ends in one of the exception handlers.
PostCaught(h, code) ==
  /\ Idle(h) /\ Accepting
  /\ Finish(h, code)
  /\ UNCHANGED <<sherlockvars, ingestvars, statusvars, lockvars, clock, stream, storevars,
                 cache, latest, destructing, rvars, nginxvars, ctor_pc, dtor_pc, hist>>

PostRequest(h, qs_codename, qs_port, confirm, body, callback, ip) ==
  IF CallsBack(confirm, qs_port) /\ callback = <<>>
    THEN PostCaught(h, "answered_400_callback_error")
    ELSE LET json == IF CallsBack(confirm, qs_port) THEN callback[1] ELSE body
         IN  IF ~ParsesAsClaireStatus(json)
               THEN PostCaught(h, "answered_400_json_parse_error")
               ELSE IF Consistent(qs_codename, qs_port, json.codename, json.local_port)
                      THEN PostStatus(h, ip, StatusOf(json))
                      ELSE PostRejected(h)

Serve(h, method, qs_codename, qs_port, confirm, body, callback, ip) ==
  /\ Idle(h) /\ Accepting
  /\ IF ~AcceptedMethod(method)
       THEN ServeOther(h)
       ELSE IF method = "DELETE"
              THEN IF qs_codename # NoCodename
                     THEN DeleteSubmit(h, qs_codename)
                     ELSE DeleteNop(h)
              ELSE IF method = "POST"
                     THEN PostRequest(h, qs_codename, qs_port, confirm, body, callback, ip)
                     ELSE \E length \in WindowLengths, interval \in Intervals,
                             active_only \in BOOLEAN :
                            StatusScan(h, length, interval, active_only)

\* The query strings of the requests: with or without codename, with or
\* without port.
ServeCodenames == {NoCodename, "a"}
ServePorts == {"", "7000"}

ServeNext ==
  \/ CtorBody
  \/ \E h \in Handlers, method \in Methods \ {"POST"}, qc \in ServeCodenames, ip \in Ips :
       Serve(h, method, qc, "", FALSE, NotAStatus, <<>>, ip)
  \/ \E h \in Handlers, qc \in ServeCodenames, qp \in ServePorts, confirm \in BOOLEAN,
        body \in Jsons, callback \in CallbackResults, ip \in Ips :
       Serve(h, "POST", qc, qp, confirm, body, callback, ip)
  \/ DeleteTxn
  \/ \E h \in Handlers :
       \/ PostTxn(h) \/ PostCache(h)
       \/ DeleteCache(h) \/ DeleteNotify(h)
       \/ StatusTxn(h) \/ StatusReturn(h)
       \/ Return(h)

ServeSpec == InitNoNginx /\ [][ServeNext]_vars

\* Requests of every method while the reconciler runs a pass whenever its
\* wait returns; no time passes. The
\* bodies are a text that is no status or the status of "a" or of "b"; the
\* callback fails or returns the status of "b".
FrameJsons == {json \in Jsons : json.runtime # "unknown"}
FrameCallbacks == {<<>>} \cup {<<json>> : json \in {j \in Jsons : j.codename = "b"}}

FrameNext ==
  \/ CtorBody
  \/ RCheck \/ RPass \/ RTxn \/ RNginxSize \/ RSleep
  \/ RSpurious
  \/ \E h \in Handlers, method \in Methods \ {"POST"}, qc \in ServeCodenames, ip \in Ips :
       Serve(h, method, qc, "", FALSE, NotAStatus, <<>>, ip)
  \/ \E h \in Handlers, qc \in ServeCodenames, qp \in ServePorts, confirm \in BOOLEAN,
        body \in FrameJsons, callback \in FrameCallbacks, ip \in Ips :
       Serve(h, "POST", qc, qp, confirm, body, callback, ip)
  \/ DeleteTxn
  \/ \E h \in Handlers :
       \/ PostTxn(h) \/ PostCache(h)
       \/ DeleteCache(h) \/ DeleteNotify(h)
       \/ StatusTxn(h) \/ StatusReturn(h)
       \/ Return(h)

FrameSpec == InitNoNginx /\ [][FrameNext]_vars

\* ------------------------------------------------------------------------
\* Sherlock (src/Sherlock/sherlock.h): one thread that calls
\* Stream::Publish, one subscriber worker (SubscriberThreadInstance), the
\* owner of its SubscriberScope, and the teardown of the stream's data.
\* `stream` is the persistence layer; entry i of the code is stream[i + 1].
MaxPublished == 4

EntryResponses == {"More", "Done"}
TerminationResponses == {"Wait", "Terminate"}

\* SmartMutexLockGuard<MLS> lock(data.publish_mutex) in DoPublish takes the
\* mutex only when the caller says it does not hold it already.
TakesPublishMutex(mls) == mls = "NeedToLock"

\* Stream::Publish holds publisher_mutex_ and passes AlreadyLocked.
StreamPublishMLS == "AlreadyLocked"

\* The worker holds data.publish_mutex from its unique_lock until the
\* condition variable has put it to sleep.
WorkerHoldsPublishMutex == sub_pc \in {"pred", "block"}

\* `*data_` and the constructor of ScopeOwnedBySomeoneElse throw
\* InDestructingModeException once the owner has begun destructing.
NeverThrows(is_destructing) == FALSE
ThrowsInDestructingMode(is_destructing) == is_destructing

\* condition_variable.notify_all(): a sleeping worker wakes up, takes the
\* mutex again and re-evaluates its predicate.
NotifyAllOfExternalWaitableEvent(pc) == IF pc = "blocked" THEN "pred" ELSE pc

\* if (!terminate_sent && terminate_signal_): the worker asks the
\* subscriber whether to terminate.
TerminateWhileSignalled(sent, signal) == signal
TerminateDue(sent, signal) == ~sent /\ signal

\* persistence.Iterate(index, size): the positions the range-for visits.
IterateFromBegin(index, size) == [begin |-> 0, end |-> size]
IterateRange(index, size) == [begin |-> index, end |-> size]

\* The predicate of terminate_signal_.WaitUntil.
SizeOnlyPredicate(signal, size, index) == size > index
WaitPredicate(signal, size, index) == signal \/ size > index

\* if (publisher_): the stream holds its publisher.
AnyPublisher(p) == TRUE
HoldsPublisher(p) == p

\* Stream::Publish up to `auto& data = *data_` in DoPublish.
PublishBegin ==
  /\ pub_pc = "idle"
  /\ Len(stream) < MaxPublished
  /\ IF HoldsPublisher(publisher)
       THEN /\ pub_pc' = IF ThrowsInDestructingMode(data_destructing) THEN "threw" ELSE "append"
            /\ thrown' = "none"
       ELSE /\ pub_pc' = pub_pc
            /\ thrown' = "PublishToStreamWithReleasedPublisherException"
  /\ UNCHANGED <<karlvars, lockvars, data_destructing, sub_pc, sub_index, sub_size,
                 sub_pos, terminate_signal, terminate_sent, thread_done, scope_pc,
                 delivered, waited,
                 terminate_calls, stopped, publisher, authority, acquired>>

\* data.persistence.Publish(entry, us)
PublishAppend ==
  /\ pub_pc = "append"
  /\ TakesPublishMutex(StreamPublishMLS) => ~WorkerHoldsPublishMutex
  /\ \E c \in Codenames : stream' = PersistencePublish(stream, c, clock)
  /\ IF TakesPublishMutex(StreamPublishMLS)
       THEN /\ sub_pc' = NotifyAllOfExternalWaitableEvent(sub_pc)
            /\ pub_pc' = "idle"
       ELSE /\ sub_pc' = sub_pc
            /\ pub_pc' = "notify"
  /\ UNCHANGED <<clock, storevars, cache, latest, destructing, rvars, nginxvars,
                 ctor_pc, dtor_pc, hvars, hist, statusvars, ingestvars, lockvars,
                 data_destructing,
                 sub_index, sub_size, sub_pos, terminate_signal, terminate_sent,
                 thread_done, scope_pc, delivered, waited,
                 terminate_calls, stopped, ownervars>>

\* data.notifier.NotifyAllOfExternalWaitableEvent()
PublishNotify ==
  /\ pub_pc = "notify"
  /\ sub_pc' = NotifyAllOfExternalWaitableEvent(sub_pc)
  /\ pub_pc' = "idle"
  /\ UNCHANGED <<karlvars, lockvars, data_destructing, sub_index, sub_size, sub_pos,
                 terminate_signal, terminate_sent, thread_done, scope_pc, delivered,
                 waited,
                 terminate_calls, stopped, ownervars>>

\* The exception leaves Stream::Publish.
PublishThrown ==
  /\ pub_pc = "threw"
  /\ pub_pc' = "idle"
  /\ UNCHANGED <<karlvars, lockvars, data_destructing, sub_pc, sub_index, sub_size,
                 sub_pos, terminate_signal, terminate_sent, thread_done, scope_pc,
                 delivered, waited,
                 terminate_calls, stopped, ownervars>>

\* Stream::Subscribe: the members of SubscriberThreadInstance are
\* constructed in order, data_ before thread_.
Subscribe ==
  /\ scope_pc = "none"
  /\ IF ThrowsInDestructingMode(data_destructing)
       THEN /\ scope_pc' = "threw"
            /\ sub_pc' = sub_pc
       ELSE /\ scope_pc' = "held"
            /\ sub_pc' = "top"
  /\ UNCHANGED <<karlvars, lockvars, data_destructing, pub_pc, sub_index, sub_size,
                 sub_pos, terminate_signal, terminate_sent, thread_done, delivered,
                 waited,
                 terminate_calls, stopped, ownervars>>

\* if (!terminate_sent && terminate_signal_) at the top of the loop.
SubTop ==
  /\ sub_pc = "top"
  /\ IF TerminateDue(terminate_sent, terminate_signal)
       THEN /\ terminate_sent' = TRUE
            /\ terminate_calls' = terminate_calls + 1
            /\ \E r \in TerminationResponses :
                 IF r # "Wait"
                   THEN sub_pc' = "returned" /\ waited' = waited /\ stopped' = TRUE
                   ELSE sub_pc' = "size" /\ waited' = TRUE /\ stopped' = stopped
       ELSE /\ sub_pc' = "size"
            /\ UNCHANGED <<terminate_sent, waited, terminate_calls, stopped>>
  /\ UNCHANGED <<karlvars, lockvars, data_destructing, pub_pc, sub_index, sub_size,
                 sub_pos, terminate_signal, thread_done, scope_pc, delivered, ownervars>>

\* size = persistence.Size(); if (size > index) the range-for begins.
SubSize ==
  /\ sub_pc = "size"
  /\ sub_size' = Len(stream)
  /\ IF Len(stream) > sub_index
       THEN /\ sub_pc' = "iter"
            /\ sub_pos' = IterateRange(sub_index, Len(stream)).begin
       ELSE /\ sub_pc' = "lock"
            /\ sub_pos' = sub_pos
  /\ UNCHANGED <<karlvars, lockvars, data_destructing, pub_pc, sub_index,
                 terminate_signal, terminate_sent, thread_done, scope_pc, delivered,
                 waited,
                 terminate_calls, stopped, ownervars>>

\* One round of the range-for: the terminate check, then the entry at the
\* iterator's position goes to the subscriber, then index = size.
SubIter ==
  /\ sub_pc = "iter"
  /\ \E t \in TerminationResponses, r \in EntryResponses :
       LET signalled == TerminateDue(terminate_sent, terminate_signal)
       IN  /\ terminate_sent' = (terminate_sent \/ signalled)
           /\ terminate_calls' = terminate_calls + (IF signalled THEN 1 ELSE 0)
           /\ IF signalled /\ t # "Wait"
                THEN /\ sub_pc' = "returned"
                     /\ stopped' = TRUE
                     /\ UNCHANGED <<sub_index, sub_pos, delivered, waited>>
                ELSE /\ waited' = (waited \/ signalled)
                     /\ delivered' = Append(delivered, sub_pos)
                     /\ stopped' = (r = "Done")
                     /\ IF r = "Done"
                          THEN /\ sub_pc' = "returned"
                               /\ UNCHANGED <<sub_index, sub_pos>>
                          ELSE /\ sub_index' = sub_size
                               /\ sub_pos' = sub_pos + 1
                               /\ sub_pc' = IF sub_pos + 1 < sub_size THEN "iter" ELSE "top"
  /\ UNCHANGED <<karlvars, lockvars, data_destructing, pub_pc, sub_size,
                 terminate_signal, thread_done, scope_pc, ownervars>>

\* std::unique_lock<std::mutex> lock(bare_data.publish_mutex) and the
\* notifier's Scope.
SubLock ==
  /\ sub_pc = "lock"
  /\ sub_pc' = "pred"
  /\ UNCHANGED <<karlvars, lockvars, data_destructing, pub_pc, sub_index, sub_size,
                 sub_pos, terminate_signal, terminate_sent, thread_done, scope_pc,
                 delivered, waited,
                 terminate_calls, stopped, ownervars>>

\* WaitUntil evaluates its predicate under the mutex.
SubPred ==
  /\ sub_pc = "pred"
  /\ sub_pc' = IF WaitPredicate(terminate_signal, Len(stream), sub_index)
                 THEN "top" ELSE "block"
  /\ UNCHANGED <<karlvars, lockvars, data_destructing, pub_pc, sub_index, sub_size,
                 sub_pos, terminate_signal, terminate_sent, thread_done, scope_pc,
                 delivered, waited,
                 terminate_calls, stopped, ownervars>>

\* The condition variable releases the mutex and puts the worker to sleep.
SubBlock ==
  /\ sub_pc = "block"
  /\ sub_pc' = "blocked"
  /\ UNCHANGED <<karlvars, lockvars, data_destructing, pub_pc, sub_index, sub_size,
                 sub_pos, terminate_signal, terminate_sent, thread_done, scope_pc,
                 delivered, waited,
                 terminate_calls, stopped, ownervars>>

\* A condition variable may wake up by itself.
SubSpurious ==
  /\ sub_pc = "blocked"
  /\ sub_pc' = "pred"
  /\ UNCHANGED <<karlvars, lockvars, data_destructing, pub_pc, sub_index, sub_size,
                 sub_pos, terminate_signal, terminate_sent, thread_done, scope_pc,
                 delivered, waited,
                 terminate_calls, stopped, ownervars>>

\* Thread(): ThreadImpl has returned, thread_done_ = true, done_callback_().
SubThreadDone ==
  /\ sub_pc = "returned"
  /\ sub_pc' = "done"
  /\ thread_done' = TRUE
  /\ UNCHANGED <<karlvars, lockvars, data_destructing, pub_pc, sub_index, sub_size,
                 sub_pos, terminate_signal, terminate_sent, scope_pc, delivered,
                 waited,
                 terminate_calls, stopped, ownervars>>

\* The SubscriberScope is released: ~SubscriberThreadInstance reads
\* thread_done_.
ScopeRelease ==
  /\ scope_pc = "held"
  /\ scope_pc' = IF ~thread_done THEN "signal" ELSE "join"
  /\ UNCHANGED <<karlvars, lockvars, data_destructing, pub_pc, sub_pc, sub_index,
                 sub_size, sub_pos, terminate_signal, terminate_sent, thread_done,
                 delivered, waited,
                 terminate_calls, stopped, ownervars>>

\* lock_guard(publish_mutex); terminate_signal_.SignalExternalTermination()
ScopeSignal ==
  /\ scope_pc = "signal"
  /\ ~WorkerHoldsPublishMutex
  /\ terminate_signal' = TRUE
  /\ sub_pc' = NotifyAllOfExternalWaitableEvent(sub_pc)
  /\ scope_pc' = "join"
  /\ UNCHANGED <<karlvars, lockvars, data_destructing, pub_pc, sub_index, sub_size,
                 sub_pos, terminate_sent, thread_done, delivered, waited,
                 terminate_calls, stopped, ownervars>>

\* thread_.join()
ScopeJoin ==
  /\ scope_pc = "join"
  /\ sub_pc = "done"
  /\ scope_pc' = "released"
  /\ UNCHANGED <<karlvars, lockvars, data_destructing, pub_pc, sub_pc, sub_index,
                 sub_size, sub_pos, terminate_signal, terminate_sent, thread_done,
                 delivered, waited,
                 terminate_calls, stopped, ownervars>>

\* The owner of the stream's data begins destructing it.
TeardownBegin ==
  /\ ~data_destructing
  /\ data_destructing' = TRUE
  /\ UNCHANGED <<karlvars, lockvars, pub_pc, sub_pc, sub_index, sub_size, sub_pos,
                 terminate_signal, terminate_sent, thread_done, scope_pc, delivered,
                 waited,
                 terminate_calls, stopped, ownervars>>

\* The callback the worker's data_ registered with the owner: under
\* publish_mutex, terminate_signal_.SignalExternalTermination().
TeardownSignal ==
  /\ data_destructing
  /\ scope_pc \in {"held", "signal", "join"}
  /\ ~terminate_signal
  /\ ~WorkerHoldsPublishMutex
  /\ terminate_signal' = TRUE
  /\ sub_pc' = NotifyAllOfExternalWaitableEvent(sub_pc)
  /\ UNCHANGED <<karlvars, lockvars, data_destructing, pub_pc, sub_index, sub_size,
                 sub_pos, terminate_sent, thread_done, scope_pc, delivered, waited,
                 terminate_calls, stopped, ownervars>>

\* Stream::MovePublisherTo(acquirer), under publisher_mutex_.
MovePublisherTo ==
  /\ pub_pc = "idle"
  /\ IF HoldsPublisher(publisher)
       THEN /\ acquired' = TRUE
            /\ publisher' = FALSE
            /\ authority' = "External"
            /\ thrown' = "none"
       ELSE /\ thrown' = "PublisherAlreadyReleasedException"
            /\ UNCHANGED <<publisher, authority, acquired>>
  /\ UNCHANGED <<karlvars, lockvars, data_destructing, pub_pc, sub_pc, sub_index, sub_size,
                 sub_pos, terminate_signal, terminate_sent, thread_done, scope_pc,
                 delivered, waited, terminate_calls, stopped>>

\* Stream::AcquirePublisher(std::move(publisher)), under publisher_mutex_.
\* The caller hands over a publisher it owns: the one its acquirer has
\* accepted, or one it has made for the stream's data. The pointer is
\* passed by value, so the caller's own pointer is empty afterwards
\* whether the call succeeds or throws.
AcquirePublisher(from_acquirer) ==
  /\ pub_pc = "idle"
  /\ from_acquirer => acquired
  /\ acquired' = IF from_acquirer THEN FALSE ELSE acquired
  /\ IF ~HoldsPublisher(publisher)
       THEN /\ publisher' = TRUE
            /\ authority' = "Own"
            /\ thrown' = "none"
       ELSE /\ thrown' = "PublisherAlreadyOwnedException"
            /\ UNCHANGED <<publisher, authority>>
  /\ UNCHANGED <<karlvars, lockvars, data_destructing, pub_pc, sub_pc, sub_index, sub_size,
                 sub_pos, terminate_signal, terminate_sent, thread_done, scope_pc,
                 delivered, waited, terminate_calls, stopped>>

\* Stream::DataAuthority()
DataAuthority == authority

Publisher == PublishAppend \/ PublishNotify \/ PublishThrown
Worker == SubTop \/ SubSize \/ SubIter \/ SubLock \/ SubPred \/ SubBlock \/ SubThreadDone
ScopeDestructor == ScopeSignal \/ ScopeJoin

StreamNext ==
  \/ PublishBegin
  \/ Publisher
  \/ Subscribe
  \/ Worker
  \/ SubSpurious
  \/ ScopeRelease
  \/ ScopeDestructor
  \/ TeardownBegin
  \/ TeardownSignal

StreamSpec == InitNoNginx /\ [][StreamNext]_vars

\* The publisher of a stream changes hands while entries are published.
OwnershipNext ==
  \/ PublishBegin
  \/ PublishAppend
  \/ PublishNotify
  \/ MovePublisherTo
  \/ \E from_acquirer \in BOOLEAN : AcquirePublisher(from_acquirer)

OwnershipSpec == InitNoNginx /\ [][OwnershipNext]_vars

\* Threads that can take a step eventually take one, and a thread that
\* waits for publish_mutex gets it if the mutex keeps being released;
\* nothing obliges anybody to publish, to subscribe, to release a scope or
\* to tear the stream down, and nothing obliges a condition variable to
\* wake up by itself.
FairStreamSpec ==
  /\ StreamSpec
  /\ WF_vars(Publisher)
  /\ WF_vars(Worker)
  /\ SF_vars(ScopeSignal)
  /\ WF_vars(ScopeJoin)
  /\ SF_vars(TeardownSignal)

\* ------------------------------------------------------------------------
\* Properties.

State(c) == IF Exists(claires, c) THEN claires[c].registered_state ELSE "none"
HasEntry(c) == \E i \in 1..Len(stream) : stream[i].codename = c

\* C1. Timeout liveness: a codename whose last request was an ingest that
\* has returned, and whose keepalive is older than service_timeout_interval,
\* is eventually DisconnectedByTimeout, unless a new request for it arrives
\* or Karl is destroyed.
C1_Silent(c) ==
  /\ hist[c] = "ingest" /\ ~InFlight(c)
  /\ Exists(cache, c) /\ TimedOut(clock, cache[c])
  /\ ~destructing

C1_TimeoutLiveness ==
  \A c \in Codenames :
    C1_Silent(c) ~>
      (State(c) = "DisconnectedByTimeout" \/ hist[c] # "ingest" \/ InFlight(c) \/ destructing)

\* C2. After an ingest for c has returned, and until a DELETE for c or
\* until its keepalive is older than service_timeout_interval, c is Active.
C2_ActiveAfterIngest ==
  \A c \in Codenames :
    (/\ hist[c] = "ingest" /\ ~InFlight(c)
     /\ Exists(cache, c) /\ ~TimedOut(clock, cache[c]))
    => State(c) = "Active"

\* C3. Restart: a codename that the constructor has put into the cache and
\* that sends nothing is eventually DisconnectedByTimeout, unless a request
\* for it arrives or Karl is destroyed.
C3_Restored(c) ==
  /\ hist[c] = "restored" /\ ~InFlight(c)
  /\ Exists(cache, c)
  /\ ~destructing

C3_RestartTimeout ==
  \A c \in Codenames :
    C3_Restored(c) ~>
      (State(c) = "DisconnectedByTimeout" \/ hist[c] # "restored" \/ InFlight(c) \/ destructing)

\* C4. The store never reflects a keepalive that is missing from the
\* stream: a codename whose row is Active has an entry in (A), and an
\* ingest that has reached its store transaction has already published an
\* entry of its codename with a timestamp not before its `now`.
C4_PublishBeforeCommit ==
  /\ \A c \in Codenames : State(c) = "Active" => HasEntry(c)
  /\ \A h \in Handlers :
       hpc[h] \in {"post_txn", "post_cache"} =>
         \E i \in 1..Len(stream) :
           stream[i].codename = hc[h] /\ stream[i].us >= hnow[h]

\* An ingest has written the Active row of a codename that had no row.
C4_Witness ==
  \E h \in Handlers :
    /\ hpc[h] = "post_cache"
    /\ State(hc[h]) = "Active"
    /\ claires[hc[h]].location = hip[h]
    /\ HasEntry(hc[h])
    /\ Len(stream) = 1

\* C5. latest_keepalive_index_plus_one[c], once an ingest for c has
\* published or once it is non-zero, is the index of the last entry of c in
\* (A), plus one.
C5_LatestIndexPlusOne ==
  \A c \in Codenames :
    (latest[c] # 0 \/ PostInFlight(c)) =>
      latest[c] = ScanIndex(stream, c, Len(stream))

\* C6. The entry a snapshot request for c serves is an entry of c, and no
\* older than the last entry of c that was in (A) when the request arrived.
C6_SnapshotIsLatest ==
  \A h \in Handlers :
    hpc[h] = "snap_respond" =>
      /\ SnapshotEntry(h).codename = hc[h]
      /\ hindex[h] >= ScanIndex(stream, hc[h], hsize[h])

\* C7. Timestamps in (A) are strictly increasing with the index.
C7_StrictlyIncreasing ==
  \A i, j \in 1..Len(stream) : i < j => stream[i].us < stream[j].us

\* A Publish was called with a timestamp not greater than the last entry's.
C7_Witness ==
  \E h \in Handlers :
    /\ hpc[h] = "post_txn"
    /\ Len(stream) >= 2
    /\ stream[Len(stream)].codename = hc[h]
    /\ hnow[h] <= stream[Len(stream) - 1].us
    /\ stream[Len(stream)].us > hnow[h]

\* C8. After a DELETE for c has completed, and until a POST for c starts, c
\* is Deregistered and absent from the cache.
C8_DeregisteredStays ==
  \A c \in Codenames :
    (hist[c] = "delete" /\ ~InFlight(c)) =>
      (State(c) = "Deregistered" /\ ~Exists(cache, c))

\* C9. Once the destructor has set the flag and notified, join() returns.
C9_DestructorTerminates == (dtor_pc = "join") ~> (dtor_pc = "done")

\* C10. Once the destructor has written KarlInfo{up=false}, the reconciler
\* commits no transaction to the store.
C10_UpFalseWritten == dtor_pc \in {"notify", "join", "done"}

C10_NoReconcilerCommitAfterDown ==
  [][(C10_UpFalseWritten /\ rpc = "txn" /\ rpc' = "nginx") => storevars' = storevars]_vars

\* ------------------------------------------------------------------------
\* C11: every subscriber worker passes the stream's entries to its
\* subscriber in index order starting from the first entry, each entry once
\* and with no gaps, however Publish interleaves with the worker's size
\* reads and its iteration: the k-th entry it passes is entry k - 1, and it
\* is an entry the stream holds.
C11_DeliveredInOrder ==
  \A k \in 1..Len(delivered) :
    /\ delivered[k] = k - 1
    /\ delivered[k] < Len(stream)

\* The worker is in the middle of a range that began past the first entry,
\* and a Publish has landed since it read the size.
C11_Witness ==
  /\ sub_pc = "iter"
  /\ Len(delivered) >= 2
  /\ sub_index > 0
  /\ Len(stream) > sub_size

\* ------------------------------------------------------------------------
\* C12: a successful Publish signals all waiting readers, so no wakeup is
\* lost: when the worker sleeps on the condition variable while the stream
\* holds an entry it has not passed yet and the Publish that appended it
\* has returned, the worker eventually leaves its sleep.
C12_NoLostWakeup ==
  (sub_pc = "blocked" /\ Len(stream) > sub_index /\ pub_pc = "idle")
    ~> (sub_pc # "blocked")

\* ------------------------------------------------------------------------
\* C13: releasing a subscription scope signals the worker to terminate and
\* joins it: once the destructor has passed its signalling step the worker
\* has been signalled or had finished already, and the destructor returns
\* whether the worker is asleep, iterating or finished, unless the
\* subscriber's Terminate() answered Wait.
C13_ScopeReleaseReturns ==
  /\ [](scope_pc \in {"join", "released"} => (terminate_signal \/ thread_done))
  /\ (scope_pc \in {"signal", "join"}) ~> (scope_pc = "released" \/ waited)

\* The destructor has signalled a worker that was asleep: the worker is
\* awake, holds the mutex and is about to evaluate its predicate.
C13_Witness ==
  /\ scope_pc = "join"
  /\ sub_pc = "pred"
  /\ terminate_signal
  /\ ~data_destructing
  /\ ~waited

\* ------------------------------------------------------------------------
\* C14: a Publish that is called while the stream is being torn down fails
\* with the graceful-shutdown error and appends no entry, and a Subscribe
\* that is called while the stream is being torn down fails with the same
\* error and starts no worker.
C14_ShutdownRejects ==
  /\ [](pub_pc = "threw" => data_destructing)
  /\ [](scope_pc = "threw" => (data_destructing /\ sub_pc = "none" /\ delivered = <<>>))
  /\ [][((data_destructing /\ pub_pc = "idle" /\ pub_pc' # "idle")
            => (pub_pc' = "threw" /\ stream' = stream))
        /\ ((pub_pc = "threw") => (stream' = stream))
        /\ ((data_destructing /\ scope_pc = "none" /\ scope_pc' # "none")
            => (scope_pc' = "threw" /\ sub_pc' = "none"))]_vars

\* Both calls have been made during the teardown and have thrown.
C14_Witness ==
  /\ data_destructing
  /\ pub_pc = "threw"
  /\ scope_pc = "threw"

\* ------------------------------------------------------------------------
\* C15: no thread ever holds the mutex of services_keepalive_time_cache and
\* the mutex of latest_keepalive_index_plus_one at the same time, in the
\* ingest, DELETE, snapshot and reconciler code paths.
C15_NeverBothMutexes == ~nested

\* An ingest has been through both of its sections, the reconciler sleeps
\* under the cache mutex and a snapshot handler has been through its own.
C15_Witness ==
  /\ rpc \in {"wait", "wait_for"}
  /\ \E c \in Codenames : Exists(cache, c) /\ hist[c] = "ingest" /\ latest[c] # 0
  /\ \E h \in Handlers : hpc[h] = "snap_respond"

\* ------------------------------------------------------------------------
\* C16: every read and every write of services_keepalive_time_cache and of
\* latest_keepalive_index_plus_one, by the handlers, by the reconciler and
\* by the constructor body once the reconciler thread runs, is made while
\* the map's own mutex is held.
C16_MapsGuarded == unguarded = {}

\* ------------------------------------------------------------------------
\* C20: a POST whose query carries a codename or a port that differs from
\* the codename or the local_port of the status JSON is answered 400 and
\* has no effect: nothing is published to the stream, nothing is committed
\* to the store, neither map changes and the reconciler is not signalled.
C20_InconsistentPostIsNop ==
  [][\A h \in Handlers, qc \in QueryCodenames, qp \in QueryPorts,
        bc \in Codenames, bp \in BodyPorts, ip \in Ips :
       (/\ (qc # NoCodename /\ qc # bc) \/ (qp # "" /\ PortFromString(qp) # bp)
        /\ Post(h, qc, qp, bc, bp, ip))
       => (/\ hpc'[h] = "answered_400"
           /\ UNCHANGED <<stream, storevars, cache, latest, rvars>>)]_vars

\* The handler has answered 400 while the reconciler sleeps on its
\* condition variable and the stream and the cache hold an earlier ingest.
C20_Witness ==
  /\ \E h \in Handlers : hpc[h] = "answered_400"
  /\ rpc \in {"wait", "wait_for"}
  /\ Len(stream) > 0
  /\ cache # <<>>

\* ------------------------------------------------------------------------
\* C19: during one launch exactly one KarlInfo with up = true is added, by
\* the constructor body, carrying the stream's last index and timestamp
\* when the stream is not empty; the only other record is the up = false
\* one of the destructor; no ingest, DELETE or reconciler pass adds one.
C19_OneKarlInfoPerLaunch ==
  [][/\ (ctor_pc' = "body") => (ctor_pc = "body")
     /\ (dtor_pc' \in {"idle", "txn"}) => (dtor_pc \in {"idle", dtor_pc'})
     /\ (karl' # karl) =>
          \/ /\ ctor_pc = "body" /\ ctor_pc' = "done"
             /\ karl' = Append(karl,
                               [up |-> TRUE,
                                persisted_keepalives_info |->
                                  IF Len(stream) = 0 THEN <<>>
                                  ELSE <<Len(stream) - 1, stream[Len(stream)].us>>])
          \/ /\ dtor_pc = "txn" /\ dtor_pc' # "txn"
             /\ karl' = Append(karl, [up |-> FALSE, persisted_keepalives_info |-> <<>>])]_vars

\* A launch that has ingested, re-registered after a timeout, deregistered
\* and shut down: the last two records are the constructor's and the
\* destructor's.
C19_Witness ==
  /\ Len(karl) >= 2
  /\ karl[Len(karl)].up = FALSE
  /\ karl[Len(karl) - 1].up = TRUE
  /\ karl[Len(karl) - 1].persisted_keepalives_info # <<>>
  /\ \E c \in Codenames : hist[c] \in {"ingest", "delete", "mixed"}

\* ------------------------------------------------------------------------
\* C17: GET / reports, for every codename that has an entry in the query
\* window, the state computed from the latest such entry: up iff
\* now - ts < service_timeout_interval, down otherwise; a codename without
\* an entry in the window is not reported. (Without active_only, which
\* filters the report further.)
C17_StatusFromLatestEntry ==
  (result.responded /\ ~result.active_only) =>
    \A c \in Codenames :
      LET inwindow == {i \in 1..result.size :
                         /\ stream[i].codename = c
                         /\ stream[i].us >= result.from
                         /\ stream[i].us < result.to}
      IN  IF inwindow = {}
            THEN ~Exists(result.services, c)
            ELSE LET latest_i == CHOOSE i \in inwindow : \A j \in inwindow : j <= i
                 IN  /\ Exists(result.services, c)
                     /\ result.services[c] = "up"
                          <=> (result.now - stream[latest_i].us < service_timeout_interval)
                     /\ result.services[c] = "down"
                          <=> (result.now - stream[latest_i].us >= service_timeout_interval)

\* One response that reports a codename up and another one down.
C17_Witness ==
  /\ result.responded /\ ~result.active_only
  /\ \E c, d \in Codenames :
       /\ Exists(result.services, c) /\ result.services[c] = "up"
       /\ Exists(result.services, d) /\ result.services[d] = "down"

\* ------------------------------------------------------------------------
\* C18: once DELETE has deregistered a codename whose last keepalive lies in
\* the query window, GET / with active_only omits it, and GET / without
\* active_only includes it and shows it with the state Deregistered.
C18_DeregisteredShown ==
  result.responded =>
    \A c \in DOMAIN result.registered :
      (result.registered[c] = "Deregistered" /\ hist[c] = "delete") =>
        IF result.active_only
          THEN ~Exists(result.services, c)
          ELSE Exists(result.services, c) /\ result.services[c] = "Deregistered"

\* ------------------------------------------------------------------------
\* C24: the ingest transaction writes ClaireInfo[codename], as Active and
\* with the new location, iff no row exists, or the stored location
\* differs, or the stored state is not Active; otherwise the table is left
\* as it is.
C24_ClaireUpsertIff ==
  [][\A h \in Handlers :
       (hpc[h] = "post_txn" /\ hpc'[h] = "post_cache") =>
         LET c == hc[h]
             absent == c \notin DOMAIN claires
             moved == ~absent /\ claires[c].location # hip[h]
             inactive == ~absent /\ claires[c].registered_state # "Active"
         IN  IF absent \/ moved \/ inactive
               THEN /\ DOMAIN claires' = DOMAIN claires \cup {c}
                    /\ claires'[c] = [registered_state |-> "Active", location |-> hip[h]]
                    /\ \A d \in DOMAIN claires \ {c} : claires'[d] = claires[d]
                    /\ store_size' = store_size + 1
               ELSE claires' = claires]_vars

\* The row of the codename the previous launch left behind, whatever its
\* state was, has been rewritten as Active with the location of another
\* peer.
C24_Witness ==
  /\ \E h \in Handlers : hpc[h] = "post_cache"
  /\ Len(stream) > 0 /\ stream[1].us < StartTime
  /\ LET c == stream[1].codename
     IN  /\ Exists(claires, c)
         /\ claires[c].location = "ip2"
         /\ claires[c].registered_state = "Active"

\* C25: the ingest's transaction writes ClaireBuildInfo[codename] exactly
\* when the keepalive reports a build and either no build is stored for the
\* codename or the stored one differs from the reported one; the row then
\* holds the reported build. Otherwise the builds are left as they were: the
\* same build ingested again changes nothing, and a keepalive without a build
\* neither erases nor changes the stored build.
C25_BuildUpsertIff ==
  [][\A h \in Handlers :
       (hpc[h] = "post_txn" /\ hpc'[h] = "post_cache") =>
         LET c == hc[h]
             reported == hbuild[h] # <<>>
             stored == c \in DOMAIN builds
         IN  IF reported /\ (~stored \/ builds[c] # hbuild[h][1])
               THEN /\ DOMAIN builds' = DOMAIN builds \cup {c}
                    /\ builds'[c] = hbuild[h][1]
                    /\ \A d \in DOMAIN builds \ {c} : builds'[d] = builds[d]
                    /\ store_size' = store_size + 1
               ELSE builds' = builds]_vars

\* The transaction of a keepalive that reports a build has left that build
\* stored for its codename, while another codename keeps a different one.
C25_Witness ==
  \E h \in Handlers :
    /\ hpc[h] = "post_cache"
    /\ hbuild[h] = <<"b2">>
    /\ builds = [c \in Codenames |-> IF c = hc[h] THEN "b2" ELSE "b1"]

\* C26: the ingest's transaction writes ServerInfo[ip] exactly when the
\* keepalive carries a ping estimate and either the ip has no row or the
\* stored behind_this_by differs from the new one by at least
\* kUpdateServerInfoThresholdByTimeSkewDifference; the row then holds the new
\* behind_this_by. Otherwise the servers are left as they were.
C26_ServerUpsertIff ==
  [][\A h \in Handlers :
       (hpc[h] = "post_txn" /\ hpc'[h] = "post_cache") =>
         LET ip == hip[h]
             estimated == hbehind[h] # <<>>
             stored == ip \in DOMAIN servers
             difference == servers[ip] - hbehind[h][1]
         IN  IF estimated /\ (~stored \/ difference >= kUpdateServerInfoThresholdByTimeSkewDifference
                                       \/ -difference >= kUpdateServerInfoThresholdByTimeSkewDifference)
               THEN /\ DOMAIN servers' = DOMAIN servers \cup {ip}
                    /\ servers'[ip] = hbehind[h][1]
                    /\ \A d \in DOMAIN servers \ {ip} : servers'[d] = servers[d]
                    /\ store_size' = store_size + 1
               ELSE servers' = servers]_vars

\* The transaction of a keepalive whose estimate is within the threshold of
\* the stored one has left the row of its ip alone.
C26_Witness ==
  \E h \in Handlers :
    /\ hpc[h] = "post_cache"
    /\ hbehind[h] # <<>>
    /\ Exists(servers, hip[h])
    /\ servers[hip[h]] # hbehind[h][1]

\* C27: the cache update that ends a successful ingest for codename c leaves
\* services_keepalive_time_cache[c] equal to that ingest's now and every
\* other entry as it was; it signals the reconciler's condition variable,
\* which wakes a waiting reconciler, exactly when c was not in the cache, and
\* refreshes the time of a cached codename without signalling.
C27_CacheRefreshed ==
  [][\A h \in Handlers :
       (hpc[h] = "post_cache" /\ hpc'[h] = "idle") =>
         LET c == hc[h]
         IN  /\ DOMAIN cache' = DOMAIN cache \cup {c}
             /\ cache'[c] = hnow[h]
             /\ \A d \in DOMAIN cache \ {c} : cache'[d] = cache[d]
             /\ IF c \in DOMAIN cache
                  THEN rpc' = rpc
                  ELSE rpc' = IF rpc \in {"wait", "wait_for"} THEN "loop" ELSE rpc]_vars

\* An ingest has ended with its codename cached at a time after the start,
\* and the reconciler is waiting.
C27_Witness ==
  /\ \A h \in Handlers : hpc[h] = "idle"
  /\ rpc \in {"wait", "wait_for"}
  /\ \E c \in DOMAIN cache : hist[c] = "ingest" /\ cache[c] > StartTime

\* C28: a reconciler pass classifies a cached codename as timed out exactly
\* when now - last > service_timeout_interval, strictly; it removes the
\* timed-out codenames from the cache and leaves the surviving entries as
\* they were. When some codename timed out, one read-write transaction sets
\* the registered_state of each of them to DisconnectedByTimeout, keeps the
\* other fields of its row (a row that did not exist holds only the
\* codename) and leaves every other row alone; when none timed out, no
\* transaction is opened and the store is as it was.
C28_ReconcilerPass ==
  [][/\ (rpc = "pass" /\ rpc' = "txn") =>
          LET timed_out == {c \in DOMAIN cache : clock - cache[c] > service_timeout_interval}
          IN  /\ r_timeouted' = timed_out
              /\ DOMAIN cache' = DOMAIN cache \ timed_out
              /\ \A c \in DOMAIN cache' : cache'[c] = cache[c]
              /\ UNCHANGED <<claires, store_size>>
     /\ (rpc = "txn" /\ rpc' = "nginx") =>
          IF r_timeouted = {}
            THEN UNCHANGED <<claires, store_size>>
            ELSE /\ DOMAIN claires' = DOMAIN claires \cup r_timeouted
                 /\ \A c \in r_timeouted :
                      /\ claires'[c].registered_state = "DisconnectedByTimeout"
                      /\ claires'[c].location =
                           IF c \in DOMAIN claires THEN claires[c].location ELSE ""
                 /\ \A c \in DOMAIN claires \ r_timeouted : claires'[c] = claires[c]
                 /\ store_size' = store_size + 1]_vars

\* A pass has timed out one ingested codename, whose row now says so, and
\* has kept another one in the cache.
C28_Witness ==
  /\ rpc = "nginx"
  /\ \E c \in DOMAIN claires :
       /\ hist[c] = "ingest"
       /\ claires[c].registered_state = "DisconnectedByTimeout"
       /\ c \notin DOMAIN cache
  /\ DOMAIN cache # {}

\* C29: at the end of a pass that left a survivor, the reconciler waits on
\* the condition variable with a deadline service_timeout_interval - (now -
\* max_survivor_last) + 1 from now, where max_survivor_last is the largest
\* time the pass kept in the cache, and does not wait when
\* service_timeout_interval - (now - max_survivor_last) is not positive; at
\* the end of a pass that left no survivor it waits without a deadline. The
\* proxy materializer is called once per pass, after the transaction of the
\* pass and before the wait.
C29_SleepAfterPass ==
  [][/\ (rpc = "pass" /\ rpc' # rpc) =>
          /\ rpc' = "txn"
          /\ r_most_recent' =
               IF DOMAIN cache' = {} THEN 0
               ELSE CHOOSE m \in {cache'[c] : c \in DOMAIN cache'} :
                      \A c \in DOMAIN cache' : cache'[c] <= m
     /\ (rpc = "txn" /\ rpc' # rpc) => (rpc' = "nginx" /\ r_most_recent' = r_most_recent)
     /\ (rpc \in {"nginx", "nginx_txn"} /\ rpc' # rpc) =>
          (rpc' \in {"nginx_txn", "sleep"} /\ r_most_recent' = r_most_recent)
     /\ (rpc' = "nginx" /\ rpc' # rpc) => rpc = "txn"
     /\ (rpc' = "sleep" /\ rpc' # rpc) => rpc \in {"nginx", "nginx_txn"}
     /\ (rpc = "sleep" /\ rpc' # rpc) =>
          IF r_most_recent = 0
            THEN rpc' = "wait"
            ELSE LET interval == service_timeout_interval - (clock - r_most_recent)
                 IN  IF interval > 0
                       THEN rpc' = "wait_for" /\ r_deadline' = clock + interval + 1
                       ELSE rpc' = "loop"
     /\ (rpc' \in {"wait", "wait_for"} /\ rpc' # rpc) => rpc = "sleep"
     /\ (rpc = "wait_for" /\ rpc' = "wait_for") => r_deadline' = r_deadline]_vars

\* The reconciler waits with a deadline ahead of the clock while a codename
\* is cached, some time after the start.
C29_Witness ==
  /\ rpc = "wait_for"
  /\ r_deadline > clock
  /\ DOMAIN cache # {}
  /\ clock > StartTime

\* C30: a regenerated proxy config holds the catch-all location "/" to
\* Karl's own port and, for each ClaireInfo that is Active in the rows the
\* read-only transaction reads, exactly one location
\* <route_prefix>/<codename>, which proxies to the StatusPageURL of that
\* row; it holds no location for a codename whose row is
\* DisconnectedByTimeout or Deregistered, and nothing else.
C30_ProxyConfig ==
  [][(rpc = "nginx_txn" /\ rpc' = "sleep") =>
       /\ [location |-> <<"/">>, proxy_pass |-> "localhost:karl_port"] \in nginx_config'
       /\ \A c \in DOMAIN claires :
            LET locations == {l \in nginx_config' : l.location = <<"route_prefix", "/", c>>}
            IN  IF claires[c].registered_state = "Active"
                  THEN locations = {[location |-> <<"route_prefix", "/", c>>,
                                     proxy_pass |-> claires[c].location]}
                  ELSE locations = {}
       /\ Cardinality(nginx_config') =
            1 + Cardinality({c \in DOMAIN claires : claires[c].registered_state = "Active"})]_vars

\* A config has been written that proxies to one codename and not to
\* another one, whose row is not Active.
C30_Witness ==
  /\ rpc = "sleep"
  /\ Cardinality(nginx_config) = 2
  /\ \E c \in DOMAIN claires :
       /\ claires[c].registered_state = "DisconnectedByTimeout"
       /\ \A l \in nginx_config : l.location # <<"route_prefix", "/", c>>

\* C21: a POST whose status JSON does not parse as the shallow ClaireStatus
\* is answered 400 "JSON parse error." and leaves the stream, the store and
\* both caches as they were. A status that parses as ClaireStatus, agrees
\* with the query, and has a runtime that does not parse as the variant is
\* not rejected: it is published with an empty runtime, and the transaction
\* that follows answers 200.
C21_ShallowParseDecides ==
  [][\A h \in Handlers :
       /\ \A qc \in ServeCodenames, qp \in ServePorts, body \in Jsons,
             callback \in CallbackResults, ip \in Ips :
            (hpc'[h] # hpc[h] /\ Serve(h, "POST", qc, qp, FALSE, body, callback, ip)) =>
              /\ ~body.is_status =>
                   /\ hpc'[h] = "answered_400_json_parse_error"
                   /\ UNCHANGED <<stream, storevars, servers, builds, cache, latest>>
              /\ (/\ body.is_status
                  /\ body.runtime # "variant"
                  /\ qc \in {NoCodename, body.codename}
                  /\ qp = "" \/ PortFromString(qp) = body.local_port) =>
                   /\ hpc'[h] = "post_txn"
                   /\ Len(stream') = Len(stream) + 1
                   /\ stream'[Len(stream')].codename = body.codename
                   /\ stream'[Len(stream')].runtime = "empty"
       /\ (hpc[h] = "post_txn" /\ hpc'[h] # "post_txn") => hpc'[h] = "post_cache"]_vars

\* A status whose runtime is unknown has been published with an empty
\* runtime and the handler is about to commit its transaction.
C21_Witness ==
  /\ \E h \in Handlers : hpc[h] = "post_txn"
  /\ Len(stream) = 2
  /\ stream[2].runtime = "empty"

\* C22: the status JSON of a POST is the body of the answer to the reverse
\* callback when both `confirm` and `port` are in the query, and the body of
\* the request otherwise: that text is the one that is parsed, compared with
\* the query and ingested. A callback that fails in the network is answered
\* 400 "Callback error." and leaves the stream, the store and both caches as
\* they were.
C22_CallbackDecides ==
  [][\A h \in Handlers, qc \in ServeCodenames, qp \in ServePorts, confirm \in BOOLEAN,
        body \in Jsons, callback \in CallbackResults, ip \in Ips :
       (hpc'[h] # hpc[h] /\ Serve(h, "POST", qc, qp, confirm, body, callback, ip)) =>
         LET performed == confirm /\ qp # ""
         IN  IF performed /\ callback = <<>>
               THEN /\ hpc'[h] = "answered_400_callback_error"
                    /\ UNCHANGED <<stream, storevars, servers, builds, cache, latest>>
               ELSE LET json == IF performed THEN callback[1] ELSE body
                    IN  IF ~json.is_status
                          THEN hpc'[h] = "answered_400_json_parse_error"
                          ELSE IF /\ qc \in {NoCodename, json.codename}
                                  /\ qp = "" \/ PortFromString(qp) = json.local_port
                                 THEN /\ hpc'[h] = "post_txn"
                                      /\ hc'[h] = json.codename
                                      /\ stream'[Len(stream')].codename = json.codename
                                 ELSE hpc'[h] = "answered_400"]_vars

\* A POST with confirm and port has been answered "Callback error." while
\* the stream and the cache hold an earlier ingest.
C22_Witness ==
  /\ \E h \in Handlers : hpc[h] = "answered_400_callback_error"
  /\ Len(stream) > 0
  /\ cache # <<>>

\* C23: a request with a method other than GET, POST and DELETE is answered
\* 405, and a DELETE without codename is answered 200 "NOP"; neither
\* changes the stream, the store or the caches.
C23_OtherMethodsAndNop ==
  [][\A h \in Handlers, method \in Methods, qc \in ServeCodenames, ip \in Ips :
       (hpc'[h] # hpc[h] /\ Serve(h, method, qc, "", FALSE, NotAStatus, <<>>, ip)) =>
         /\ method \notin {"GET", "POST", "DELETE"} =>
              /\ hpc'[h] = "answered_405"
              /\ UNCHANGED <<stream, storevars, servers, builds, cache, latest>>
         /\ (method = "DELETE" /\ qc = NoCodename) =>
              /\ hpc'[h] = "answered_200_NOP"
              /\ UNCHANGED <<stream, storevars, servers, builds, cache, latest>>]_vars

\* A DELETE without codename has been answered "NOP" while the stream and
\* the cache hold an earlier ingest.
C23_Witness ==
  /\ \E h \in Handlers : hpc[h] = "answered_200_NOP"
  /\ Len(stream) > 0
  /\ cache # <<>>

\* C31: without a config file the proxy materializer never opens its
\* read-only transaction on the store and never writes a config. With one,
\* a reconciler tick goes on to rewrite the config only on the first run or
\* when the size of the store's backing log differs from
\* last_reflected_state_stream_size, and the rewrite leaves
\* last_reflected_state_stream_size equal to the size that the tick read
\* before its transaction; nothing else changes the config or that size.
C31_MaterializerRuns ==
  [][/\ ~has_nginx =>
          /\ rpc' # "nginx_txn"
          /\ UNCHANGED <<nginx_config, last_reflected, first_run>>
     /\ (rpc = "nginx" /\ rpc' = "nginx_txn") =>
          /\ first_run \/ store_size # last_reflected
          /\ r_size' = store_size
          /\ UNCHANGED <<nginx_config, last_reflected, first_run>>
     /\ (rpc = "nginx" /\ rpc' = "sleep") =>
          /\ ~has_nginx \/ (~first_run /\ store_size = last_reflected)
          /\ UNCHANGED <<nginx_config, last_reflected, first_run>>
     /\ (rpc = "nginx_txn" /\ rpc' # "nginx_txn") =>
          /\ rpc' = "sleep"
          /\ last_reflected' = r_size
          /\ first_run' = FALSE
     /\ rpc \notin {"nginx", "nginx_txn"} =>
          UNCHANGED <<nginx_config, last_reflected, first_run>>]_vars

\* After the rewrite of the first run, a later tick has found the size of
\* the log changed and is about to rewrite the config again.
C31_Witness ==
  /\ has_nginx
  /\ ~first_run
  /\ rpc = "nginx_txn"
  /\ r_size # last_reflected

\* C36: whenever a proxy config has been written and
\* last_reflected_state_stream_size equals the current size of the store's
\* backing log, the locations of the last written config, the catch-all
\* aside, are those of exactly the codenames that are Active now. A commit
\* between the size read and the read-only transaction makes the recorded
\* size differ from the current one, so the next tick rewrites the config.
C36_ReflectedConfigIsCurrent ==
  (has_nginx /\ ~first_run /\ last_reflected = store_size) =>
    {l.location[3] : l \in {m \in nginx_config : Len(m.location) = 3}}
      = ActiveCodenames(claires)

\* The written config reflects the current log, which holds commits made
\* after the constructor's, with one codename Active and another one not.
C36_Witness ==
  /\ has_nginx /\ ~first_run /\ last_reflected = store_size
  /\ store_size >= 3
  /\ ActiveCodenames(claires) # {}
  /\ DOMAIN claires \ ActiveCodenames(claires) # {}

\* C32: the window of the range query is chosen by precedence. `from` is
\* the query's from if present, else now minus m minutes, else now minus h
\* hours, else now minus d days, else now minus five minutes; `to` is the
\* query's to if present, else from + interval_us if present, else now.
\* Exactly the entries of the stream with from <= timestamp < to contribute
\* to the report: the report has the codenames of those entries, each with
\* the state derived from its last entry in the window.
C32_WindowByPrecedence ==
  [][\A h \in Handlers :
       (hpc[h] = "idle" /\ hpc'[h] = "status_txn") =>
         \A q \in Queries :
           StatusQuery(h, q, status'[h].active_only) =>
             LET now == clock
                 from == CASE q.from # <<>> -> q.from[1]
                           [] q.from = <<>> /\ q.m # <<>> -> now - q.m[1] * Minute
                           [] q.from = <<>> /\ q.m = <<>> /\ q.h # <<>> -> now - q.h[1] * Hour
                           [] q.from = <<>> /\ q.m = <<>> /\ q.h = <<>> /\ q.d # <<>> ->
                                now - q.d[1] * Day
                           [] OTHER -> now - 5 * Minute
                 to == CASE q.to # <<>> -> q.to[1]
                         [] q.to = <<>> /\ q.interval_us # <<>> -> from + q.interval_us[1]
                         [] OTHER -> now
                 inside == {i \in 1..Len(stream) : from <= stream[i].us /\ stream[i].us < to}
             IN  /\ status'[h].from = from
                 /\ status'[h].to = to
                 /\ DOMAIN status'[h].report = {stream[i].codename : i \in inside}
                 /\ \A c \in DOMAIN status'[h].report :
                      LET last == CHOOSE i \in inside :
                                    /\ stream[i].codename = c
                                    /\ \A j \in inside : stream[j].codename = c => j <= i
                      IN  status'[h].report[c] =
                            IF now - stream[last].us < service_timeout_interval
                              THEN "up" ELSE "down"]_vars

\* A query has reported one codename of the stream and left out the other,
\* whose only keepalive is before the window.
C32_Witness ==
  \E h \in Handlers :
    /\ hpc[h] = "status_txn"
    /\ Len(stream) = 2
    /\ stream[1].codename # stream[2].codename
    /\ DOMAIN status[h].report = {stream[2].codename}
    /\ status[h].to > status[h].from

\* C33: a codename that has a keepalive in the window of the query and no
\* ClaireInfo row is reported by GET /, with or without active_only, with
\* the location whose ip is "zombie/" + codename and whose port is 0; a
\* codename with a row is reported with the location of its row.
C33_ZombieReported ==
  result.responded =>
    \A c \in DOMAIN result.registered :
      /\ result.registered[c] = "none" =>
           /\ c \in DOMAIN result.services
           /\ result.location[c] = [ip |-> <<"zombie/", c>>, port |-> 0]
      /\ (result.registered[c] # "none" /\ c \in DOMAIN result.services) =>
           result.location[c].ip # <<"zombie/", c>>

\* A query with active_only has answered with a codename that has no row,
\* after an ingest has given a row to another codename.
C33_Witness ==
  /\ result.responded /\ result.active_only
  /\ \E c \in DOMAIN result.services : c \notin DOMAIN claires
  /\ \E d \in DOMAIN result.services : d \in DOMAIN claires

\* C34: a snapshot request that finds no non-zero value in
\* latest_keepalive_index_plus_one for its codename scans the whole stream.
\* When the stream holds an entry of the codename, the request memoizes the
\* index of the last such entry, plus one, in the index cache and answers
\* with that entry; it answers 404, and memoizes nothing, exactly when the
\* stream holds no entry of the codename.
C34_SnapshotScan ==
  [][\A h \in Handlers :
       LET c == hc[h]
           entries == {i \in 1..Len(stream) : stream[i].codename = c}
           last == CHOOSE i \in entries : \A j \in entries : j <= i
       IN  /\ (hpc[h] = "idle" /\ hpc'[h] \in {"snap_scan", "snap_respond"}) =>
                (hpc'[h] = "snap_scan" <=> latest[hc'[h]] = 0)
           /\ (hpc[h] = "snap_scan" /\ hpc'[h] # "snap_scan") =>
                IF entries = {}
                  THEN hpc'[h] = "idle" /\ latest' = latest
                  ELSE hpc'[h] = "snap_memo" /\ hindex'[h] = last /\ hc'[h] = c
           /\ (hpc[h] = "snap_memo" /\ hpc'[h] # "snap_memo") =>
                /\ hpc'[h] = "snap_respond"
                /\ hindex[h] = last
                /\ latest'[c] = IF latest[c] > last THEN latest[c] ELSE last
                /\ \A d \in Codenames \ {c} : latest'[d] = latest[d]
                /\ stream'[hindex'[h]] = stream[last]]_vars

\* A request has scanned a stream with two entries of its codename and has
\* memoized the index of the second one, plus one.
C34_Witness ==
  \E h \in Handlers :
    /\ hpc[h] = "snap_respond"
    /\ Len(stream) = 2
    /\ stream[1].codename = hc[h] /\ stream[2].codename = hc[h]
    /\ hindex[h] = 2
    /\ latest[hc[h]] = 2

\* C39: for a subscription, the worker calls the subscriber's Terminate() at
\* most once; and once Terminate() has answered anything other than Wait, or
\* the subscriber has answered Done to an entry, the worker passes no
\* further entry to the subscriber.
C39_TerminateOnceThenSilence ==
  [][/\ terminate_calls' <= 1
     /\ stopped => (stopped' /\ delivered' = delivered /\ terminate_calls' = terminate_calls)]_vars

\* The worker has called Terminate() once, the subscriber has stopped the
\* subscription after receiving an entry, and the stream has grown since:
\* an entry exists that the subscriber was never given.
C39_Witness ==
  /\ stopped
  /\ terminate_calls = 1
  /\ waited
  /\ Len(delivered) >= 1
  /\ Len(stream) > delivered[Len(delivered)] + 1
  /\ sub_pc = "done"

\* C38: DELETE /?codename=c changes only registered_state of an existing
\* ClaireInfo[c], keeping its other fields, and creates a row that holds
\* just the codename, with state Deregistered, when there is none; the rows
\* of other codenames, the builds, servers and karl tables and
\* latest_keepalive_index_plus_one stay as they are in every step of the
\* request.
C38_DeleteFrame ==
  [][/\ (detached' # detached \/ \E h \in Handlers :
            hpc'[h] # hpc[h] /\ {hpc[h], hpc'[h]} \cap {"del_cache", "del_notify"} # {}) =>
          /\ builds' = builds /\ servers' = servers /\ karl' = karl /\ latest' = latest
          /\ stream' = stream
     /\ (detached # <<>> /\ detached' = Tail(detached) /\ Len(detached') < Len(detached)) =>
          LET c == Head(detached)
          IN  /\ DOMAIN claires' = DOMAIN claires \cup {c}
              /\ \A d \in DOMAIN claires \ {c} : claires'[d] = claires[d]
              /\ claires'[c].registered_state = "Deregistered"
              /\ claires'[c].location = IF Exists(claires, c) THEN claires[c].location ELSE ""
     /\ (\E h \in Handlers :
            hpc'[h] # hpc[h] /\ {hpc[h], hpc'[h]} \cap {"del_cache", "del_notify"} # {}) =>
          claires' = claires]_vars

\* A DELETE has committed for a codename that had a row, a location and a
\* build: the row is Deregistered and still carries the location.
C38_Witness ==
  \E c \in Codenames :
    /\ hist[c] = "delete"
    /\ Exists(claires, c)
    /\ claires[c].registered_state = "Deregistered"
    /\ claires[c].location # ""
    /\ Exists(builds, c)
    /\ latest[c] # 0

\* C37: the keepalive stream grows by exactly one entry in a POST whose
\* body (or callback response) parses as a ClaireStatus and agrees with the
\* query string; a GET, a DELETE, another method, a rejected POST, the
\* reconciler and every later step of a request leave it as it is; and an
\* entry that is in the stream never changes.
C37_StreamFrame ==
  [][/\ \A h \in Handlers :
          (hpc'[h] # hpc[h] /\ Idle(h)) =>
            /\ stream' # stream =>
                 /\ Len(stream') = Len(stream) + 1
                 /\ \A method \in Methods \ {"POST"}, qc \in ServeCodenames, ip \in Ips :
                      ~Serve(h, method, qc, "", FALSE, NotAStatus, <<>>, ip)
            /\ \A qc \in ServeCodenames, qp \in ServePorts, confirm \in BOOLEAN,
                  body \in FrameJsons, callback \in FrameCallbacks :
                 LET called == confirm /\ qp # ""
                     json == IF called /\ callback # <<>> THEN callback[1] ELSE body
                     passes == /\ called => callback # <<>>
                               /\ json.is_status
                               /\ qc = NoCodename \/ json.codename = qc
                               /\ qp = "" \/ json.local_port = 7000
                 IN  (passes = (stream' = stream)) =>
                       \A ip \in Ips : ~Serve(h, "POST", qc, qp, confirm, body, callback, ip)
     /\ (\A h \in Handlers : ~(hpc'[h] # hpc[h] /\ Idle(h))) => stream' = stream
     /\ Len(stream') >= Len(stream)
     /\ \A i \in 1..Len(stream) : stream'[i] = stream[i]]_vars

\* A POST has been ingested on top of a persisted entry, the reconciler has
\* run a pass since, and a later POST has been rejected.
C37_Witness ==
  /\ Len(stream) = 2
  /\ ~("runtime" \in DOMAIN stream[1])
  /\ "runtime" \in DOMAIN stream[2]
  /\ rpc = "wait_for"
  /\ \E h \in Handlers : hpc[h] = "answered_400"

\* C35: whenever the constructor has finished and no HTTP handler, no
\* detached transaction and no reconciler pass is in progress, the keys of
\* services_keepalive_time_cache are exactly the codenames whose ClaireInfo
\* is Active.
C35_Quiescent ==
  /\ ctor_pc = "done"
  /\ dtor_pc = "idle"
  /\ \A h \in Handlers : Idle(h)
  /\ detached = <<>>
  /\ rpc \in {"wait", "wait_for"}

C35_CacheIsActiveSet ==
  C35_Quiescent =>
    DOMAIN cache = {c \in DOMAIN claires : claires[c].registered_state = "Active"}

\* C40: DataAuthority() is Own exactly when the stream holds its
\* publisher. MovePublisherTo on a stream that holds its publisher hands
\* it over and leaves the authority External; on a stream that has
\* released it, it throws PublisherAlreadyReleasedException. Publish on a
\* stream that has released its publisher throws
\* PublishToStreamWithReleasedPublisherException and publishes nothing.
\* AcquirePublisher on a stream that holds its publisher throws
\* PublisherAlreadyOwnedException; on one that has released it, it
\* restores Own, and Publish proceeds again. A call that throws leaves
\* publisher and authority as they were.
C40_PublisherOwnership ==
  [][/\ (DataAuthority = "Own") <=> publisher
     /\ (DataAuthority' = "Own") <=> publisher'
     /\ DataAuthority' \in {"Own", "External"}
     /\ MovePublisherTo =>
          IF publisher
            THEN authority' = "External" /\ ~publisher' /\ thrown' = "none"
            ELSE thrown' = "PublisherAlreadyReleasedException"
     /\ (\E from_acquirer \in BOOLEAN : AcquirePublisher(from_acquirer)) =>
          IF publisher
            THEN thrown' = "PublisherAlreadyOwnedException"
            ELSE authority' = "Own" /\ publisher' /\ thrown' = "none"
     /\ PublishBegin =>
          IF authority = "External"
            THEN thrown' = "PublishToStreamWithReleasedPublisherException" /\ pub_pc' = "idle"
            ELSE thrown' = "none" /\ pub_pc' = "append"
     /\ thrown' # "none" => UNCHANGED <<publisher, authority, stream>>
     /\ stream' # stream => authority = "Own"]_vars

\* The stream has handed its publisher over to the acquirer, which still
\* holds it, and has acquired a newly made one since: the authority is Own
\* again and a Publish is on its way to the persister.
C40_Witness ==
  /\ acquired
  /\ publisher
  /\ DataAuthority = "Own"
  /\ thrown = "none"
  /\ pub_pc = "append"
====
